---- MODULE Spec2Model ----
(***************************************************************************)
(* Verification model of PHILAB's instrumentation engine:                  *)
(*   - phi2_core/hooks.py          HookManager (register / remove / hooks) *)
(*   - phi2_core/model_manager.py  Phi2ModelManager.forward_with_hooks     *)
(*   - phi2_experiments/runner.py  ExperimentRunner.run and its sweeps     *)
(*   - phi2_core/adapter_manager.py AdapterManager (lock + active set)     *)
(* Each subsystem has its own specification over the shared variables.     *)
(***************************************************************************)
EXTENDS Integers, Sequences, FiniteSets, TLC

(***************************************************************************)
(* Bounds of the model.                                                    *)
(***************************************************************************)
NumBlocks == 2      \* transformer blocks of the modelled network
NumHeads == 2       \* attention heads per block (= hidden size, head_dim 1)
MaxCalls == 3       \* forward_with_hooks calls issued by the direct client
NumRecords == 2     \* distinct dataset records fed to the passes

None == "None"

(***************************************************************************)
(* Generic helpers.                                                        *)
(***************************************************************************)
RECURSIVE SumSeq(_)
SumSeq(s) == IF s = <<>> THEN 0 ELSE Head(s) + SumSeq(Tail(s))

RECURSIVE SelectFrom(_, _)
\* the subsequence of entries of s that are not in the set drop
SelectFrom(s, drop) ==
    IF s = <<>> THEN <<>>
    ELSE IF Head(s) \in drop THEN SelectFrom(Tail(s), drop)
         ELSE <<Head(s)>> \o SelectFrom(Tail(s), drop)

Range(s) == {s[i] : i \in DOMAIN s}

(***************************************************************************)
(* Hook addressing (hooks.py).                                             *)
(***************************************************************************)
Records == 1..NumRecords
LayerIdx == (0 - 1)..NumBlocks            \* -1 and NumBlocks lie outside [0, NumBlocks)
BlockAttrs == {"self_attn", "mlp"}        \* nn.Module attributes of a block
Submodules == BlockAttrs \cup {"nosuch"}
HookPoints == [layer_idx : LayerIdx, submodule : Submodules]

\* HookPoint.key(): "layer{layer_idx}.{submodule}" (head_idx is None)
key(point) == <<point.layer_idx, point.submodule>>

\* HookManager._resolve_module: IndexError when layer_idx >= len(blocks);
\* blocks[layer_idx] follows Python list indexing (negative indices count
\* from the end); getattr raises AttributeError for a missing submodule.
resolve_module(point) ==
    IF point.layer_idx >= NumBlocks THEN [ok |-> FALSE, err |-> "IndexError"]
    ELSE IF point.layer_idx < 0 - NumBlocks THEN [ok |-> FALSE, err |-> "IndexError"]
    ELSE IF point.submodule \notin BlockAttrs THEN [ok |-> FALSE, err |-> "AttributeError"]
    ELSE [ok |-> TRUE,
          module |-> <<IF point.layer_idx < 0 THEN point.layer_idx + NumBlocks
                       ELSE point.layer_idx,
                      point.submodule>>]

Modules == (0..(NumBlocks - 1)) \X BlockAttrs

\* the blocks' submodules in execution order of the network
ModuleOrder ==
    LET RECURSIVE Build(_)
        Build(b) == IF b >= NumBlocks THEN <<>>
                    ELSE << <<b, "self_attn">>, <<b, "mlp">> >> \o Build(b + 1)
    IN Build(0)

(***************************************************************************)
(* Tensors: the trailing dimension of a component output, one slot per     *)
(* head.  The network itself is external; its unhooked component outputs   *)
(* are a fixed function of the record and the component.                   *)
(***************************************************************************)
Hidden == NumHeads
BaseOut(rec, module) ==
    [i \in 1..Hidden |-> rec + module[1] + i + (IF module[2] = "mlp" THEN 1 ELSE 0)]

\* runner._make_intervention_fn: tensor + scale * delta, delta zero-padded or
\* truncated to the trailing dimension; a new tensor is returned.
DeltaAt(delta, i) == IF i <= Len(delta) THEN delta[i] ELSE 0
intervention_fn(delta, tensor) == [i \in 1..Hidden |-> tensor[i] + DeltaAt(delta, i)]

\* ablation.zero_attention_head: no-op when the module reports no num_heads
\* or num_heads <= head_idx; otherwise head slice head_idx is zeroed IN PLACE.
num_heads(module) == IF module[2] = "self_attn" THEN NumHeads ELSE 0
HeadAblates(module, idx) == num_heads(module) > idx /\ idx >= 0
zero_attention_head(module, idx, tensor) ==
    IF HeadAblates(module, idx)
    THEN [i \in 1..Hidden |-> IF i = idx + 1 THEN 0 ELSE tensor[i]]
    ELSE tensor

\* ablation.zero_mlp_neurons: clone, then zero every index below the size.
zero_mlp_neurons(indices, tensor) ==
    [i \in 1..Hidden |-> IF (i - 1) \in Range(indices) THEN 0 ELSE tensor[i]]

(***************************************************************************)
(* HookSpec and HookManager (hooks.py).                                    *)
(***************************************************************************)
EmptySpec == [record_points |-> <<>>, ablate_points |-> <<>>, interventions |-> <<>>]

\* the hook requests of a spec in the order register() walks them:
\* record_points, then ablate_points, then interventions.items()
HookRequests(spec) ==
    [i \in 1..Len(spec.record_points) |->
        [kind |-> "record", point |-> spec.record_points[i],
         akind |-> "none", indices |-> <<>>, delta |-> <<>>]]
    \o [i \in 1..Len(spec.ablate_points) |->
        [kind |-> "ablate", point |-> spec.ablate_points[i].point,
         akind |-> spec.ablate_points[i].kind,
         indices |-> spec.ablate_points[i].indices, delta |-> <<>>]]
    \o [i \in 1..Len(spec.interventions) |->
        [kind |-> "intervene", point |-> spec.interventions[i].point,
         akind |-> "none", indices |-> <<>>, delta |-> spec.interventions[i].delta]]

RECURSIVE register(_, _, _)
\* HookManager.register: resolve and attach one request after the other; the
\* first request that fails to resolve raises and the loop stops there, with
\* the earlier forward hooks still attached to their modules.
register(reqs, mgr, acc) ==
    IF reqs = <<>> THEN acc
    ELSE LET r == resolve_module(Head(reqs).point)
         IN IF ~r.ok THEN [acc EXCEPT !.err = r.err]
            ELSE LET h == [mgr |-> mgr, seq |-> Len(acc.handles) + 1,
                           kind |-> Head(reqs).kind, key |-> key(Head(reqs).point),
                           module |-> r.module, akind |-> Head(reqs).akind,
                           indices |-> Head(reqs).indices, delta |-> Head(reqs).delta]
                 IN register(Tail(reqs), mgr,
                             [hooks |-> Append(acc.hooks, h),
                              handles |-> Append(acc.handles, h),
                              err |-> "none"])

\* a remove() that leaves the handles attached
remove_nothing(hooks, hs) == hooks

\* HookManager.remove: every handle of this manager is removed from its module
remove(hooks, hs) == SelectFrom(hooks, Range(hs))

EmptyActs == [k \in {} |-> <<>>]

RECURSIVE apply_ablation(_, _, _)
\* HookManager._apply_ablation for kind ATTENTION_HEAD: one call per index
apply_ablation(module, indices, tensor) ==
    IF indices = <<>> THEN tensor
    ELSE apply_ablation(module, Tail(indices),
                        zero_attention_head(module, Head(indices), tensor))

RECURSIVE RunHooks(_, _, _, _)
\* torch calls the forward hooks of one module in registration order; a hook
\* that returns a value replaces the output seen by the later hooks.
\* st.out is the current output, st.acts the activations of manager mgr,
\* st.alias the keys whose recorded tensor shares storage with st.out
\* (tensor.detach().cpu() copies only when the tensor is not on the CPU).
RunHooks(hs, mgr, dev, st) ==
    IF hs = <<>> THEN st
    ELSE LET h == Head(hs)
             nxt ==
               CASE h.kind = "record" ->
                      IF h.mgr # mgr THEN st
                      ELSE [out |-> st.out,
                            acts |-> (h.key :> st.out) @@ st.acts,
                            alias |-> IF dev = "cpu" THEN st.alias \cup {h.key}
                                      ELSE st.alias \ {h.key}]
                 [] h.kind = "ablate" /\ h.akind = "attention_head" ->
                      LET t == apply_ablation(h.module, h.indices, st.out)
                      IN [out |-> t,
                          acts |-> [k \in DOMAIN st.acts |->
                                      IF k \in st.alias THEN t ELSE st.acts[k]],
                          alias |-> st.alias]
                 [] h.kind = "ablate" /\ h.akind # "attention_head" ->
                      [out |-> zero_mlp_neurons(h.indices, st.out),
                       acts |-> st.acts, alias |-> {}]
                 [] OTHER ->
                      [out |-> intervention_fn(h.delta, st.out),
                       acts |-> st.acts, alias |-> {}]
         IN RunHooks(Tail(hs), mgr, dev, nxt)

RECURSIVE RunModules(_, _, _, _, _, _)
\* one forward pass of the network: every component produces its output and
\* its forward hooks run on it
RunModules(ms, hooks, mgr, dev, rec, acc) ==
    IF ms = <<>> THEN acc
    ELSE LET m == Head(ms)
             st == RunHooks(SelectSeq(hooks, LAMBDA h : h.module = m), mgr, dev,
                            [out |-> BaseOut(rec, m), acts |-> acc.acts, alias |-> {}])
         IN RunModules(Tail(ms), hooks, mgr, dev, rec,
                       [final |-> (m :> st.out) @@ acc.final, acts |-> st.acts])

forward(hooks, mgr, dev, rec) ==
    RunModules(ModuleOrder, hooks, mgr, dev, rec,
               [final |-> [m \in {} |-> <<>>], acts |-> EmptyActs])

RECURSIVE TotalOf(_, _)
TotalOf(ms, final) ==
    IF ms = <<>> THEN 0 ELSE SumSeq(final[Head(ms)]) + TotalOf(Tail(ms), final)

\* runner._extract_metrics: (loss, accuracy) are read off the model outputs,
\* which are a deterministic function of the hooked component outputs
extract_metrics(final) ==
    [loss |-> TotalOf(ModuleOrder, final),
     accuracy |-> Cardinality({<<m, i>> \in Modules \X (1..Hidden) : final[m][i] # 0})]

(***************************************************************************)
(* State.                                                                  *)
(***************************************************************************)
VARIABLES
    device,        \* where the network's tensors live: "cpu" or "cuda"
    modelHooks,    \* forward hooks attached to the network, registration order
    hpc,           \* position of the thread inside forward_with_hooks
    calls,         \* forward_with_hooks calls started so far (manager ids)
    curSpec,       \* hook_spec argument of the current / last call
    curRec,        \* record fed to the current / last call
    handles,       \* HookManager.handles of the current / last manager
    lastExit,      \* how the last call left: returned / raised
    lastOutputs,   \* model outputs of the last call that returned
    lastActs,      \* manager.activations of the last call that returned
    lastFinal,     \* component outputs of the last pass (after all hooks)
    regFailed,     \* history: some call raised inside manager.register()
    emptyResults,  \* history: outputs of the empty-HookSpec passes per record
    hookedSince,   \* history: a hooked pass returned after an empty pass
    reEmpty        \* history: an empty pass returned after such a hooked pass

hookVars == <<device, modelHooks, hpc, calls, curSpec, curRec, handles, lastExit,
              lastOutputs, lastActs, lastFinal, regFailed, emptyResults,
              hookedSince, reEmpty>>

VARIABLES
    rpc,            \* position of ExperimentRunner.run
    runs,           \* run() calls started so far
    cfg,            \* the ExperimentSpec and runner configuration of the run
    baseline_stats, \* cached BaselineMetrics, one per record
    pos,            \* loop position: layer / head / record indices (1-based)
    rows,           \* per_example_results
    intervention_spec, \* HookSpec built by _build_intervention_hook_spec
    base_local,     \* base_loss / base_accuracy of the record being processed
    passLog,        \* history: every forward pass attempted by the run
    artifacts,      \* files written by log_experiment_result, per run
    result,         \* the ExperimentResult returned by the run
    runExit         \* how run() left: returned or the exception kind

runVars == <<rpc, runs, cfg, baseline_stats, pos, rows, intervention_spec, base_local, passLog,
             artifacts, result, runExit>>

VARIABLES
    built,           \* the AdapterManager has been constructed
    peft_available,  \* AdapterManager._peft_available
    loadable,        \* adapters whose files exist and load
    multi_supported, \* model.set_adapter accepts a list of several adapters
    active,          \* AdapterManager.active
    applied,         \* adapters currently set on the model (<<>>: disabled)
    loaded,          \* AdapterManager._loaded
    lockOwner,       \* thread holding AdapterManager._lock
    lockCount,       \* recursion level of the RLock
    frames,          \* per thread: the activation_scope generators at `yield`
    entered,         \* history, per thread and open scope: state at entry
    entryFailed,     \* history, per thread: an activation_scope entry raised
    lastOp           \* history: the last operation, if a scope exit or a failed activate

adapterVars == <<built, peft_available, loadable, multi_supported, active, applied, loaded,
                 lockOwner, lockCount, frames, entered, entryFailed, lastOp>>

VARIABLES
    rankIn,        \* aggregated_importance handed to rank_heads_by_importance
    rankOut        \* the list it returned

rankVars == <<rankIn, rankOut>>

VARIABLES
    splitN,        \* num_samples handed to _probe_split_indices
    train_end,     \* the first index it returned
    test_start,    \* the second index it returned
    trainIdx,      \* sample indices of activations_array[:train_end]
    testIdx        \* sample indices of activations_array[test_start:]

splitVars == <<splitN, train_end, test_start, trainIdx, testIdx>>

VARIABLES
    pcaMatrix,     \* matrix handed to compute_pca ([samples, features])
    pcaRequested,  \* its components argument
    pcaStatus,     \* "none", "ok" or the exception raised
    pcaCount       \* number of rows of PCAResult.components

pcaVars == <<pcaMatrix, pcaRequested, pcaStatus, pcaCount>>

VARIABLES
    resIn,         \* arguments of the last residual-mode producer
    resStatus,     \* "none", "ok" or the exception raised
    resModes,      \* the ResidualMode list produced for the layer
    resSampleCount  \* the residual sample count recorded with it

resVars == <<resIn, resStatus, resModes, resSampleCount>>

VARIABLES
    task,          \* the Task row: status, runs_needed, runs_completed
    taskInitial,   \* runs_completed when the task was created
    taskValidCalls, \* update_task_progress calls made with is_valid=True
    taskLast       \* the last update_task_progress call and the row it found

taskVars == <<task, taskInitial, taskValidCalls, taskLast>>

VARIABLES
    dsBefore,      \* dataset.status when evaluate_dataset_status was called
    dsVerifications, \* DatasetVerification rows of the dataset joined with their verifiers
    dsFlags,       \* DatasetFlag rows of the dataset raised by eligible flaggers
    dsStatus       \* dataset.status after evaluate_dataset_status, "none" before

datasetVars == <<dsBefore, dsVerifications, dsFlags, dsStatus>>

VARIABLES
    aggResults,    \* Result rows of the task: is_valid and the findings of result_summary
    findingRows    \* Finding rows of the task

aggVars == <<aggResults, findingRows>>

VARIABLES
    limitIn,       \* spec.layers and layer_limit handed to load_and_run, <<>> before
    limitLayers    \* spec.layers handed on to runner.run

limitVars == <<limitIn, limitLayers>>

VARIABLES
    recorder,      \* the GeometryRecorder: _run_id, _layers, _timeline, _summary
    recSaved,      \* the summary written by telemetry_store.save_run_summary, <<>> before
    recCall,       \* the last call on the recorder, its outcome and the recorder it found
    recDirectUse,  \* TRUE once a client other than the runner called the recorder
    geoStarted,    \* ExperimentRunner._geometry_run_started
    geoRunId,      \* ExperimentRunner._geometry_run_id
    geoRuns,       \* ExperimentRunner.run calls made
    geoLastRun     \* what the last ExperimentRunner.run call did with the telemetry run

geoVars == <<recorder, recSaved, recCall, recDirectUse, geoStarted, geoRunId, geoRuns, geoLastRun>>

VARIABLES
    generation     \* the last model_manager.generate call: the agent, self.active and the scopes open at that moment

agentVars == <<generation>>

VARIABLES
    rlBackend,     \* "unset", then "redis" (_REDIS_CLIENT is set) or "memory"
    rlNow,         \* time.time(), in seconds
    rlRedis,       \* Redis counters: per key the count and the time the key expires
    rlCounts,      \* _REQUEST_COUNTS[bucket]: per key the count and window_start
    rlAbuse,       \* _ABUSE_COUNTS[ip], followed up to the ban threshold
    rlBanned,      \* ip in _BANNED_IPS
    rlLast         \* the last request: its key, the count its backend gave it, the outcome

rateVars == <<rlBackend, rlNow, rlRedis, rlCounts, rlAbuse, rlBanned, rlLast>>

VARIABLES
    qTasks,        \* Task rows: status, runs_needed, runs_completed
    qResults,      \* number of Result rows per contributor and task
    qCounted,      \* per contributor and task, the submissions that raised runs_completed
    qContributorRuns, \* Contributor.runs_completed
    qLast          \* the last next-task request: contributor, task returned, results it already had

queueVars == <<qTasks, qResults, qCounted, qContributorRuns, qLast>>

libVars == <<rankVars, splitVars, pcaVars, resVars, taskVars, datasetVars, aggVars, limitVars, geoVars, agentVars, rateVars, queueVars>>

RankFrame == UNCHANGED <<hookVars, runVars, adapterVars, splitVars, pcaVars, resVars, taskVars, datasetVars, aggVars, limitVars, geoVars, agentVars, rateVars, queueVars>>

SplitFrame == UNCHANGED <<hookVars, runVars, adapterVars, rankVars, pcaVars, resVars, taskVars, datasetVars, aggVars, limitVars, geoVars, agentVars, rateVars, queueVars>>

PcaFrame == UNCHANGED <<hookVars, runVars, adapterVars, rankVars, splitVars, resVars, taskVars, datasetVars, aggVars, limitVars, geoVars, agentVars, rateVars, queueVars>>

ResFrame == UNCHANGED <<hookVars, runVars, adapterVars, rankVars, splitVars, pcaVars, taskVars, datasetVars, aggVars, limitVars, geoVars, agentVars, rateVars, queueVars>>

TaskFrame == UNCHANGED <<hookVars, runVars, adapterVars, rankVars, splitVars, pcaVars, resVars, datasetVars, aggVars, limitVars, geoVars, agentVars, rateVars, queueVars>>

DatasetFrame == UNCHANGED <<hookVars, runVars, adapterVars, rankVars, splitVars, pcaVars, resVars, taskVars, aggVars, limitVars, geoVars, agentVars, rateVars, queueVars>>

AggFrame == UNCHANGED <<hookVars, runVars, adapterVars, rankVars, splitVars, pcaVars, resVars, taskVars, datasetVars, limitVars, geoVars, agentVars, rateVars, queueVars>>

LimitFrame == UNCHANGED <<hookVars, runVars, adapterVars, rankVars, splitVars, pcaVars, resVars, taskVars, datasetVars, aggVars, geoVars, agentVars, rateVars, queueVars>>

GeoFrame == UNCHANGED <<hookVars, runVars, adapterVars, rankVars, splitVars, pcaVars, resVars, taskVars, datasetVars, aggVars, limitVars, agentVars, rateVars, queueVars>>

AgentFrame == UNCHANGED <<hookVars, runVars, adapterVars, rankVars, splitVars, pcaVars, resVars, taskVars, datasetVars, aggVars, limitVars, geoVars, rateVars, queueVars>>

RateFrame == UNCHANGED <<hookVars, runVars, adapterVars, rankVars, splitVars, pcaVars, resVars, taskVars, datasetVars, aggVars, limitVars, geoVars, agentVars, queueVars>>

QueueFrame == UNCHANGED <<hookVars, runVars, adapterVars, rankVars, splitVars, pcaVars, resVars, taskVars, datasetVars, aggVars, limitVars, geoVars, agentVars, rateVars>>

vars == <<hookVars, runVars, adapterVars, libVars>>

(***************************************************************************)
(* HookSpecs the direct client of forward_with_hooks may pass.             *)
(***************************************************************************)
Pt(l, s) == [layer_idx |-> l, submodule |-> s]
GoodPoint == Pt(0, "self_attn")
BadPoint == Pt(NumBlocks, "self_attn")     \* layer index past the last block
NegPoint == Pt(0 - 1, "self_attn")         \* layer index below the first block
PoolRecordPoints == {<<>>, <<GoodPoint>>, <<NegPoint>>}
PoolAblations ==
    {<<>>} \cup {<<[point |-> p, kind |-> "attention_head", indices |-> <<0>>]>> :
                    p \in {GoodPoint, BadPoint}}
PoolInterventions ==
    {<<>>} \cup {<<[point |-> p, delta |-> <<2>>]>> : p \in {GoodPoint, BadPoint}}
SpecPool == [record_points : PoolRecordPoints, ablate_points : PoolAblations,
             interventions : PoolInterventions]

HookInit ==
    /\ device \in {"cpu", "cuda"}
    /\ modelHooks = <<>>
    /\ hpc = "idle"
    /\ calls = 0
    /\ curSpec = EmptySpec
    /\ curRec = 1
    /\ handles = <<>>
    /\ lastExit = "none"
    /\ lastOutputs = [loss |-> 0, accuracy |-> 0]
    /\ lastActs = EmptyActs
    /\ lastFinal = EmptyActs
    /\ regFailed = FALSE
    /\ emptyResults = [r \in Records |-> {}]
    /\ hookedSince = [r \in Records |-> FALSE]
    /\ reEmpty = [r \in Records |-> FALSE]

HookIdle == UNCHANGED <<curSpec, curRec, handles, lastExit, lastOutputs, lastActs,
                        lastFinal, regFailed, emptyResults, hookedSince, reEmpty, hpc,
                        adapterVars, libVars>>

Registration(spec) ==
    register(HookRequests(spec), calls + 1,
             [hooks |-> modelHooks, handles |-> <<>>, err |-> "none"])

\* forward_with_hooks, lines 357-365: HookManager(model, spec); manager.register()
\* succeeded, control is now inside the try block
ForwardRegistered(spec, rec) ==
    /\ UNCHANGED <<runVars, adapterVars, libVars>>
    /\ hpc = "idle" /\ calls < MaxCalls
    /\ Registration(spec).err = "none"
    /\ modelHooks' = Registration(spec).hooks
    /\ handles' = Registration(spec).handles
    /\ hpc' = "forward"
    /\ calls' = calls + 1
    /\ curSpec' = spec /\ curRec' = rec
    /\ lastExit' = "pending"
    /\ UNCHANGED <<device, lastOutputs, lastActs, lastFinal, regFailed, emptyResults,
                   hookedSince, reEmpty>>

\* forward_with_hooks, line 365: manager.register() raises; the call is left
\* before the try block is entered, so manager.remove() is not run
ForwardRegisterRaises(spec, rec) ==
    /\ UNCHANGED <<runVars, adapterVars, libVars>>
    /\ hpc = "idle" /\ calls < MaxCalls
    /\ Registration(spec).err # "none"
    /\ modelHooks' = Registration(spec).hooks
    /\ handles' = Registration(spec).handles
    /\ hpc' = "exited"
    /\ calls' = calls + 1
    /\ curSpec' = spec /\ curRec' = rec
    /\ lastExit' = "register_raised"
    /\ regFailed' = TRUE
    /\ UNCHANGED <<device, lastOutputs, lastActs, lastFinal, emptyResults,
                   hookedSince, reEmpty>>

\* forward_with_hooks, lines 366-370: outputs = model(**inputs); finally
\* manager.remove(); return outputs, manager.activations
ForwardReturns ==
    /\ UNCHANGED <<runVars, adapterVars, libVars>>
    /\ hpc = "forward"
    /\ LET res == forward(modelHooks, calls, device, curRec)
           out == extract_metrics(res.final)
       IN /\ lastOutputs' = out
          /\ lastActs' = res.acts
          /\ lastFinal' = res.final
          /\ emptyResults' = IF curSpec = EmptySpec
                             THEN [emptyResults EXCEPT ![curRec] = @ \cup {out}]
                             ELSE emptyResults
    /\ hookedSince' = IF curSpec # EmptySpec
                      THEN [r \in Records |-> hookedSince[r] \/ emptyResults[r] # {}]
                      ELSE hookedSince
    /\ reEmpty' = IF curSpec = EmptySpec
                  THEN [reEmpty EXCEPT ![curRec] = @ \/ hookedSince[curRec]]
                  ELSE reEmpty
    /\ modelHooks' = remove(modelHooks, handles)
    /\ handles' = <<>>
    /\ hpc' = "exited"
    /\ lastExit' = "returned"
    /\ UNCHANGED <<device, calls, curSpec, curRec, regFailed>>

\* forward_with_hooks, lines 366-369: model(**inputs) raises; finally
\* manager.remove(); the exception propagates
ForwardRaises ==
    /\ UNCHANGED <<runVars, adapterVars, libVars>>
    /\ hpc = "forward"
    /\ modelHooks' = remove(modelHooks, handles)
    /\ handles' = <<>>
    /\ hpc' = "exited"
    /\ lastExit' = "forward_raised"
    /\ UNCHANGED <<device, calls, curSpec, curRec, lastOutputs, lastActs, lastFinal,
                   regFailed, emptyResults, hookedSince, reEmpty>>

\* the caller has consumed the return value or the exception; the frame of
\* forward_with_hooks (manager, outputs) is gone
ForwardFrameDropped ==
    /\ UNCHANGED <<runVars, adapterVars, libVars>>
    /\ hpc = "exited"
    /\ hpc' = "idle"
    /\ curSpec' = EmptySpec /\ curRec' = 1
    /\ handles' = <<>>
    /\ lastExit' = "none"
    /\ lastOutputs' = [loss |-> 0, accuracy |-> 0]
    /\ lastActs' = EmptyActs
    /\ lastFinal' = EmptyActs
    /\ UNCHANGED <<device, modelHooks, calls, regFailed, emptyResults, hookedSince,
                   reEmpty>>

HookNext ==
    \/ \E spec \in SpecPool, rec \in Records : ForwardRegistered(spec, rec)
    \/ \E spec \in SpecPool, rec \in Records : ForwardRegisterRaises(spec, rec)
    \/ ForwardReturns
    \/ ForwardRaises
    \/ ForwardFrameDropped


(***************************************************************************)
(* Metrics (metrics.py).  Floats are fixed-point integers: a relative      *)
(* delta is kept in units of 1/FloatScale.                                 *)
(***************************************************************************)
FloatScale == 100

Abs(x) == IF x < 0 THEN 0 - x ELSE x

compute_loss_delta(baseline, perturbed) ==
    IF baseline = 0 THEN 0 ELSE ((perturbed - baseline) * FloatScale) \div baseline

compute_accuracy_delta(baseline_accuracy, perturbed_accuracy) ==
    perturbed_accuracy - baseline_accuracy

RECURSIVE MinSeq(_)
MinSeq(s) == IF Len(s) = 1 THEN s[1]
             ELSE LET m == MinSeq(Tail(s)) IN IF Head(s) < m THEN Head(s) ELSE m
RECURSIVE MaxSeq(_)
MaxSeq(s) == IF Len(s) = 1 THEN s[1]
             ELSE LET m == MaxSeq(Tail(s)) IN IF Head(s) > m THEN Head(s) ELSE m

ZeroStats == [mean |-> 0, min |-> 0, max |-> 0]

aggregate_metric_values(values) ==
    IF values = <<>> THEN ZeroStats
    ELSE [mean |-> SumSeq(values) \div Len(values),
          min |-> MinSeq(values), max |-> MaxSeq(values)]

RECURSIVE Digits(_)
\* the character codes of str(n): "-" is 45, "0".."9" are 48..57
Digits(n) ==
    IF n < 0 THEN <<45>> \o Digits(0 - n)
    ELSE IF n < 10 THEN <<48 + n>>
    ELSE Digits(n \div 10) \o <<48 + (n % 10)>>

\* f"layer{l}.head{h}" without the two constant words: the characters that
\* decide a comparison of two head keys ("." is 46)
KeyChars(head) == Digits(head[1]) \o <<46>> \o Digits(head[2])

RECURSIVE StrLess(_, _)
\* Python's str.__lt__ on two character sequences
StrLess(a, b) ==
    IF b = <<>> THEN FALSE
    ELSE IF a = <<>> THEN TRUE
    ELSE IF Head(a) # Head(b) THEN Head(a) < Head(b)
    ELSE StrLess(Tail(a), Tail(b))

\* head keys ordered as pairs of numbers
RankBefore_numeric(a, b) ==
    \/ a.score > b.score
    \/ a.score = b.score /\ (a.head[1] < b.head[1]
                             \/ (a.head[1] = b.head[1] /\ a.head[2] < b.head[2]))

\* the sort key (-score, head) of rank_heads_by_importance; head is the
\* key string
RankBefore(a, b) ==
    \/ a.score > b.score
    \/ a.score = b.score /\ StrLess(KeyChars(a.head), KeyChars(b.head))

RECURSIVE SortRanked(_)
SortRanked(items) ==
    IF items = {} THEN <<>>
    ELSE LET first == CHOOSE x \in items : \A y \in items \ {x} : RankBefore(x, y)
         IN <<first>> \o SortRanked(items \ {first})

rank_heads_by_importance(aggregated_importance) ==
    SortRanked({[head |-> k, score |-> aggregated_importance[k].mean] :
                    k \in DOMAIN aggregated_importance})

(***************************************************************************)
(* ExperimentRunner (runner.py).                                           *)
(***************************************************************************)
MaxRuns == 1        \* run() calls on one runner

NoOut == [loss |-> 0, accuracy |-> 0]
NoPos == [layer |-> 1, head |-> 1, rec |-> 1]

\* the direction registry (AtlasStorage.load_direction)
Registry == {"known"}
DirectionVector(name) == <<3>>

InterventionDefs ==
    [point : {GoodPoint}, delta : {<<>>, <<2>>}, direction : {None, "known", "missing"}]

BaseConfig ==
    [type |-> "head_ablation", records |-> 0, layers |-> <<>>, heads |-> <<>>,
     batch_size |-> 0, hooks |-> <<>>, interventions |-> <<>>, has_storage |-> FALSE]

Configs ==
    {[BaseConfig EXCEPT !.records = r, !.layers = l, !.heads = h, !.batch_size = b] :
        r \in 0..NumRecords,
        l \in {<<0>>, <<0, NumBlocks - 1>>, <<0, 0>>, <<NumBlocks>>},
        h \in {<<0>>, <<0, 1>>}, b \in {0, 2}}
    \cup {[BaseConfig EXCEPT !.type = t, !.records = r, !.hooks = h] :
        t \in {"probe", "geometry"}, r \in 0..NumRecords,
        h \in {<<>>, <<GoodPoint>>, <<BadPoint>>}}
    \cup {[BaseConfig EXCEPT !.type = "direction_intervention", !.records = r,
                             !.interventions = i, !.has_storage = a] :
        r \in 0..NumRecords, a \in BOOLEAN,
        i \in {<<>>} \cup {<<d>> : d \in InterventionDefs}}

\* the early return for an empty dataset left out
dataset_is_empty_never(records) == FALSE

\* `if not records:` after load_dataset_with_limit
dataset_is_empty(records) == records = 0

\* a sweep that swallows the exception of a pass and carries on
propagates_never(status) == FALSE

\* no except clause surrounds a forward pass: any status but "ok" leaves the
\* loops and run()
propagates(status) == status # "ok"

\* every record compared against the first cached baseline
baseline_for_first(stats, record_idx) == stats[1]

\* baseline = baseline_stats[record_idx]
baseline_for(stats, record_idx) == stats[record_idx + 1]

\* a key that names the layer only
head_key_layer_only(layer_idx, head_idx) == <<layer_idx, 0>>

\* _head_key: f"layer{layer_idx}.head{head_idx}"
head_key(layer_idx, head_idx) == <<layer_idx, head_idx>>

build_head_ablation_spec(layer_idx, head_idx) ==
    [record_points |-> <<>>,
     ablate_points |-> <<[point |-> Pt(layer_idx, "self_attn"),
                          kind |-> "attention_head", indices |-> <<head_idx>>]>>,
     interventions |-> <<>>]

\* _resolve_direction_delta: an explicit delta wins; a direction name is
\* looked up only when the runner has an atlas storage; otherwise the
\* empty tuple is returned
resolve_direction_delta(definition, has_storage) ==
    IF definition.delta # <<>> THEN [ok |-> TRUE, delta |-> definition.delta]
    ELSE IF definition.direction # None /\ has_storage
    THEN IF definition.direction \notin Registry THEN [ok |-> FALSE, delta |-> <<>>]
         ELSE [ok |-> TRUE, delta |-> DirectionVector(definition.direction)]
    ELSE [ok |-> TRUE, delta |-> <<>>]

\* interventions[point] = fn : a dict keeps the first insertion position of a key
DictPut(d, point, delta) ==
    IF \E i \in DOMAIN d : d[i].point = point
    THEN [i \in DOMAIN d |-> IF d[i].point = point
                             THEN [point |-> point, delta |-> delta] ELSE d[i]]
    ELSE Append(d, [point |-> point, delta |-> delta])

RECURSIVE build_intervention_hook_spec(_, _, _)
build_intervention_hook_spec(defs, has_storage, acc) ==
    IF defs = <<>>
    THEN [ok |-> TRUE,
          spec |-> [record_points |-> <<>>, ablate_points |-> <<>>, interventions |-> acc]]
    ELSE LET d == resolve_direction_delta(Head(defs), has_storage)
         IN IF ~d.ok THEN [ok |-> FALSE, spec |-> EmptySpec]
            ELSE build_intervention_hook_spec(Tail(defs), has_storage,
                                              DictPut(acc, Head(defs).point, d.delta))

\* _compute_baseline: record indices in the order the batches walk them
BaselineOrder(n, batch_size) ==
    LET bs == IF batch_size = 0 THEN 1 ELSE batch_size
        RECURSIVE Batches(_)
        Batches(start) ==
            IF start >= n THEN <<>>
            ELSE [i \in 1..((IF start + bs > n THEN n ELSE start + bs) - start) |->
                     start + i] \o Batches(start + bs)
    IN Batches(0)

\* Phi2ModelManager.forward_with_hooks as one call: register, run, remove.
\* fault: the network's forward pass raises.
forward_with_hooks(spec, rec, fault) ==
    LET reg == Registration(spec)
    IN IF reg.err # "none"
       THEN [status |-> reg.err, hooks |-> reg.hooks, spec |-> spec, out |-> NoOut]
       ELSE IF fault
       THEN [status |-> "ForwardFault", hooks |-> remove(reg.hooks, reg.handles),
             spec |-> spec, out |-> NoOut]
       ELSE [status |-> "ok", hooks |-> remove(reg.hooks, reg.handles), spec |-> spec,
             out |-> extract_metrics(forward(reg.hooks, calls + 1, device, rec).final)]

NoResult == [valid |-> FALSE, type |-> "none", records |-> 0, per_head |-> EmptyActs,
             ranking |-> <<>>, summary |-> EmptyActs]

NoRow == [record_index |-> 0, layer |-> 0, head |-> 0, baseline_loss |-> 0,
          perturbed_loss |-> 0, loss_delta |-> 0, baseline_accuracy |-> 0,
          perturbed_accuracy |-> 0, accuracy_delta |-> 0]

\* one entry of per_example_results
MakeRow(record_idx, layer, head, baseline, out) ==
    [record_index |-> record_idx, layer |-> layer, head |-> head,
     baseline_loss |-> baseline.loss, perturbed_loss |-> out.loss,
     loss_delta |-> compute_loss_delta(baseline.loss, out.loss),
     baseline_accuracy |-> baseline.accuracy, perturbed_accuracy |-> out.accuracy,
     accuracy_delta |-> compute_accuracy_delta(baseline.accuracy, out.accuracy)]

RowsOf(rs, k) == SelectSeq(rs, LAMBDA r : head_key(r.layer, r.head) = k)
LossDeltas(rs) == [i \in DOMAIN rs |-> rs[i].loss_delta]
AccuracyDeltas(rs) == [i \in DOMAIN rs |-> rs[i].accuracy_delta]
Importances(rs) == [i \in DOMAIN rs |-> Abs(rs[i].loss_delta)]

\* the result returned for an empty dataset (the early returns of _run_*)
EmptyResult(c) ==
    [valid |-> TRUE, type |-> c.type, records |-> 0, per_head |-> EmptyActs,
     ranking |-> <<>>,
     summary |->
        CASE c.type = "head_ablation" ->
               [k \in {"baseline.loss", "baseline.accuracy", "delta.loss",
                       "delta.accuracy"} |-> aggregate_metric_values(<<>>)]
          [] c.type = "direction_intervention" ->
               [k \in {"baseline.loss", "baseline.accuracy", "intervention.loss",
                       "intervention.accuracy", "delta.loss", "delta.accuracy"} |->
                   aggregate_metric_values(<<>>)]
          [] OTHER -> EmptyActs]

\* the result assembled after the loops of _run_* (probe training and the
\* PCA/SVD summaries are not part of this model: a placeholder per hook)
BuiltResult(c, stats, rs) ==
    LET keys == {head_key(rs[i].layer, rs[i].head) : i \in DOMAIN rs}
        per_head == [k \in keys |->
                       [loss_delta |-> aggregate_metric_values(LossDeltas(RowsOf(rs, k))),
                        accuracy_delta |->
                            aggregate_metric_values(AccuracyDeltas(RowsOf(rs, k))),
                        importance |-> aggregate_metric_values(Importances(RowsOf(rs, k)))]]
    IN CASE c.type = "head_ablation" ->
              [valid |-> TRUE, type |-> c.type, records |-> c.records,
               per_head |-> per_head,
               ranking |-> rank_heads_by_importance(
                              [k \in keys |-> per_head[k].importance]),
               summary |->
                  [k \in {"baseline.loss", "baseline.accuracy", "delta.loss",
                          "delta.accuracy"} |->
                     CASE k = "baseline.loss" ->
                            aggregate_metric_values([i \in DOMAIN stats |-> stats[i].loss])
                       [] k = "baseline.accuracy" ->
                            aggregate_metric_values([i \in DOMAIN stats |-> stats[i].accuracy])
                       [] k = "delta.loss" -> aggregate_metric_values(LossDeltas(rs))
                       [] OTHER -> aggregate_metric_values(AccuracyDeltas(rs))]]
         [] c.type = "direction_intervention" ->
              [valid |-> TRUE, type |-> c.type, records |-> c.records,
               per_head |-> EmptyActs, ranking |-> <<>>,
               summary |->
                  [k \in {"baseline.loss", "baseline.accuracy", "intervention.loss",
                          "intervention.accuracy", "delta.loss", "delta.accuracy"} |->
                     CASE k = "baseline.loss" ->
                            aggregate_metric_values([i \in DOMAIN rs |-> rs[i].baseline_loss])
                       [] k = "baseline.accuracy" ->
                            aggregate_metric_values(
                                [i \in DOMAIN rs |-> rs[i].baseline_accuracy])
                       [] k = "intervention.loss" ->
                            aggregate_metric_values([i \in DOMAIN rs |-> rs[i].perturbed_loss])
                       [] k = "intervention.accuracy" ->
                            aggregate_metric_values(
                                [i \in DOMAIN rs |-> rs[i].perturbed_accuracy])
                       [] k = "delta.loss" -> aggregate_metric_values(LossDeltas(rs))
                       [] OTHER -> aggregate_metric_values(AccuracyDeltas(rs))]]
         [] OTHER ->
              [valid |-> TRUE, type |-> c.type, records |-> c.records,
               per_head |-> EmptyActs, ranking |-> <<>>,
               summary |-> IF c.records = 0 THEN EmptyActs
                           ELSE [k \in {c.type} |-> ZeroStats]]

RunInit ==
    /\ rpc = "idle"
    /\ runs = 0
    /\ cfg = BaseConfig
    /\ baseline_stats = <<>>
    /\ pos = NoPos
    /\ rows = <<>>
    /\ intervention_spec = EmptySpec
    /\ base_local = NoOut
    /\ passLog = <<>>
    /\ artifacts = {}
    /\ result = NoResult
    /\ runExit = "none"

\* where run() stands after dispatch, dataset loading and the checks that
\* precede the first forward pass of _run_head_ablation, _run_probe,
\* _run_direction_intervention and _run_geometry
BeginOutcome(c) ==
    LET loops == IF c.records = 0 THEN "finish" ELSE "go"
    IN CASE c.type = "head_ablation" ->
              IF dataset_is_empty(c.records) \/ loops = "finish"
              THEN [err |-> "none", next |-> "finish", spec |-> EmptySpec]
              ELSE [err |-> "none", next |-> "baseline", spec |-> EmptySpec]
         [] c.type = "direction_intervention" ->
              IF c.interventions = <<>>
              THEN [err |-> "ValueError", next |-> "exited", spec |-> EmptySpec]
              ELSE IF dataset_is_empty(c.records)
              THEN [err |-> "none", next |-> "finish", spec |-> EmptySpec]
              ELSE LET b == build_intervention_hook_spec(c.interventions, c.has_storage, <<>>)
                   IN IF ~b.ok
                      THEN [err |-> "ValueError", next |-> "exited", spec |-> EmptySpec]
                      ELSE [err |-> "none",
                            next |-> IF loops = "finish" THEN "finish" ELSE "dir_base",
                            spec |-> b.spec]
         [] OTHER ->
              IF c.hooks = <<>>
              THEN [err |-> "ValueError", next |-> "exited", spec |-> EmptySpec]
              ELSE IF dataset_is_empty(c.records) \/ loops = "finish"
              THEN [err |-> "none", next |-> "finish", spec |-> EmptySpec]
              ELSE [err |-> "none", next |-> "collect", spec |-> EmptySpec]

\* run(), lines 102-115, up to the first forward pass of the experiment
RunBegin(c) ==
    /\ rpc = "idle" /\ runs < MaxRuns
    /\ BeginOutcome(c).err = "none"
    /\ rpc' = BeginOutcome(c).next
    /\ intervention_spec' = BeginOutcome(c).spec
    /\ runs' = runs + 1
    /\ cfg' = c
    /\ baseline_stats' = <<>> /\ pos' = NoPos /\ rows' = <<>> /\ base_local' = NoOut
    /\ passLog' = <<>> /\ result' = NoResult /\ runExit' = "none"
    /\ UNCHANGED <<artifacts, device, modelHooks, calls>>
    /\ HookIdle

\* run(): the experiment raises before any forward pass (missing hooks or
\* interventions, unresolved direction); finally: _finalize_geometry()
RunBeginRaises(c) ==
    /\ rpc = "idle" /\ runs < MaxRuns
    /\ BeginOutcome(c).err # "none"
    /\ rpc' = "exited"
    /\ runExit' = BeginOutcome(c).err
    /\ runs' = runs + 1
    /\ cfg' = c
    /\ baseline_stats' = <<>> /\ pos' = NoPos /\ rows' = <<>> /\ base_local' = NoOut
    /\ passLog' = <<>> /\ result' = NoResult /\ intervention_spec' = EmptySpec
    /\ UNCHANGED <<artifacts, device, modelHooks, calls>>
    /\ HookIdle

\* effects of one call of _execute_forward / _forward_with_spec
PassEffects(o, kind, rec) ==
    /\ modelHooks' = o.hooks
    /\ calls' = calls + 1
    /\ passLog' = Append(passLog, [kind |-> kind, rec |-> rec, status |-> o.status,
                                   spec |-> o.spec,
                                   out |-> o.out])
    /\ UNCHANGED <<device, runs, cfg, artifacts, result, intervention_spec>>
    /\ HookIdle

\* the exception leaves the loops and run(); finally: _finalize_geometry()
Abort(status) ==
    /\ rpc' = "exited"
    /\ runExit' = status
    /\ UNCHANGED <<baseline_stats, pos, rows, base_local>>

\* _compute_baseline, lines 633-638: one empty-HookSpec pass per record
BaselinePass ==
    /\ rpc = "baseline"
    /\ \E fault \in BOOLEAN :
        LET rec == BaselineOrder(cfg.records, cfg.batch_size)[pos.rec]
            o == forward_with_hooks(EmptySpec, rec, fault)
        IN /\ PassEffects(o, "baseline", rec)
           /\ IF propagates(o.status) THEN Abort(o.status)
              ELSE /\ baseline_stats' = Append(baseline_stats, o.out)
                   /\ IF pos.rec < cfg.records
                      THEN pos' = [pos EXCEPT !.rec = @ + 1] /\ rpc' = "baseline"
                      ELSE /\ pos' = NoPos
                           /\ rpc' = IF cfg.layers = <<>> \/ cfg.heads = <<>>
                                     THEN "finish" ELSE "grid"
                   /\ UNCHANGED <<rows, base_local, runExit>>

\* _run_head_ablation, lines 180-205: one ablated pass of the grid
AblatedPass ==
    /\ rpc = "grid"
    /\ \E fault \in BOOLEAN :
        LET layer == cfg.layers[pos.layer]
            head == cfg.heads[pos.head]
            record_idx == pos.rec - 1
            o == forward_with_hooks(build_head_ablation_spec(layer, head), pos.rec, fault)
        IN /\ PassEffects(o, "ablated", pos.rec)
           /\ IF propagates(o.status) THEN Abort(o.status)
              ELSE /\ rows' = Append(rows, MakeRow(record_idx, layer, head,
                                                   baseline_for(baseline_stats, record_idx),
                                                   o.out))
                   /\ IF pos.rec < cfg.records
                      THEN pos' = [pos EXCEPT !.rec = @ + 1] /\ rpc' = "grid"
                      ELSE IF pos.head < Len(cfg.heads)
                      THEN pos' = [pos EXCEPT !.head = @ + 1, !.rec = 1] /\ rpc' = "grid"
                      ELSE IF pos.layer < Len(cfg.layers)
                      THEN pos' = [layer |-> pos.layer + 1, head |-> 1, rec |-> 1]
                           /\ rpc' = "grid"
                      ELSE pos' = NoPos /\ rpc' = "finish"
                   /\ UNCHANGED <<baseline_stats, base_local, runExit>>

\* a baseline pass that already carries the intervention hooks
baseline_spec_intervening == intervention_spec

\* _run_direction_intervention, line 448: baseline_spec = HookSpec()
baseline_spec == EmptySpec

\* _run_direction_intervention, lines 459-462: the baseline pass of a record
DirectionBaselinePass ==
    /\ rpc = "dir_base"
    /\ \E fault \in BOOLEAN :
        LET o == forward_with_hooks(baseline_spec, pos.rec, fault)
        IN /\ PassEffects(o, "baseline", pos.rec)
           /\ IF propagates(o.status) THEN Abort(o.status)
              ELSE /\ base_local' = o.out
                   /\ rpc' = "dir_interv"
                   /\ UNCHANGED <<baseline_stats, pos, rows, runExit>>

\* _run_direction_intervention, lines 463-485: the intervention pass of a record
DirectionInterventionPass ==
    /\ rpc = "dir_interv"
    /\ \E fault \in BOOLEAN :
        LET o == forward_with_hooks(intervention_spec, pos.rec, fault)
        IN /\ PassEffects(o, "intervention", pos.rec)
           /\ IF propagates(o.status) THEN Abort(o.status)
              ELSE /\ rows' = Append(rows, MakeRow(pos.rec - 1, 0 - 1, 0 - 1, base_local,
                                                   o.out))
                   /\ IF pos.rec < cfg.records
                      THEN pos' = [pos EXCEPT !.rec = @ + 1] /\ rpc' = "dir_base"
                      ELSE pos' = NoPos /\ rpc' = "finish"
                   /\ UNCHANGED <<baseline_stats, base_local, runExit>>

\* _run_probe, lines 317-326 and _run_geometry, lines 559-565: one recording
\* pass per record
CollectPass ==
    /\ rpc = "collect"
    /\ \E fault \in BOOLEAN :
        LET o == forward_with_hooks([EmptySpec EXCEPT !.record_points = cfg.hooks],
                                    pos.rec, fault)
        IN /\ PassEffects(o, "record", pos.rec)
           /\ IF propagates(o.status) THEN Abort(o.status)
              ELSE /\ IF pos.rec < cfg.records
                      THEN pos' = [pos EXCEPT !.rec = @ + 1] /\ rpc' = "collect"
                      ELSE pos' = NoPos /\ rpc' = "finish"
                   /\ UNCHANGED <<baseline_stats, rows, base_local, runExit>>

\* run(), lines 117-130: the result is assembled, log_experiment_result writes
\* result.json and one .npz side-car when there are payloads; run returns
Finish ==
    /\ rpc = "finish"
    /\ result' = IF dataset_is_empty(cfg.records) THEN EmptyResult(cfg)
                 ELSE BuiltResult(cfg, baseline_stats, rows)
    /\ artifacts' = artifacts \cup {<<runs, "result_json">>}
                    \cup (IF (cfg.type \in {"head_ablation", "direction_intervention"}
                              /\ rows # <<>>)
                             \/ (cfg.type = "probe" /\ cfg.records >= 1)
                             \/ (cfg.type = "geometry" /\ cfg.records >= 2)
                          THEN {<<runs, "npz">>} ELSE {})
    /\ rpc' = "exited"
    /\ runExit' = "returned"
    /\ UNCHANGED <<runs, cfg, baseline_stats, pos, rows, intervention_spec, base_local,
                   passLog, device, modelHooks, calls>>
    /\ HookIdle

\* the caller has the result or the exception; the locals of run() are gone
RunFrameDropped ==
    /\ rpc = "exited"
    /\ rpc' = "idle"
    /\ cfg' = BaseConfig
    /\ baseline_stats' = <<>> /\ pos' = NoPos /\ rows' = <<>> /\ base_local' = NoOut
    /\ intervention_spec' = EmptySpec
    /\ passLog' = <<>> /\ result' = NoResult /\ runExit' = "none"
    /\ UNCHANGED <<runs, artifacts, device, modelHooks, calls>>
    /\ HookIdle

RunNext ==
    \/ \E c \in Configs : RunBegin(c)
    \/ \E c \in Configs : RunBeginRaises(c)
    \/ BaselinePass
    \/ AblatedPass
    \/ DirectionBaselinePass
    \/ DirectionInterventionPass
    \/ CollectPass
    \/ Finish
    \/ RunFrameDropped

(***************************************************************************)
(* AdapterManager (adapter_manager.py).                                    *)
(***************************************************************************)
NumThreads == 2     \* threads sharing one AdapterManager
MaxDepth == 2       \* nesting depth of activation_scope per thread
MaxLockCount == 3   \* recursion level of the lock the model follows

Threads == 1..NumThreads
Adapters == {"a", "b"}
IdLists == {<<>>, <<"a">>, <<"a", "b">>}
NoThread == 0

\* a runtime check that lets every request through
ensure_peft_skipped == TRUE

\* _ensure_peft: RuntimeError unless _check_peft() found the PEFT package
ensure_peft == peft_available

RECURSIVE ensure_loaded(_, _)
\* the loop `for adapter_id in ids: self._ensure_loaded(adapter_id)`:
\* a loaded adapter is skipped, otherwise PEFT must be available and the
\* adapter files must load; the first failure raises
ensure_loaded(ids, ld) ==
    IF ids = <<>> THEN [ok |-> TRUE, loaded |-> ld]
    ELSE IF Head(ids) \in ld THEN ensure_loaded(Tail(ids), ld)
    ELSE IF ~ensure_peft \/ Head(ids) \notin loadable
    THEN [ok |-> FALSE, loaded |-> ld]
    ELSE ensure_loaded(Tail(ids), ld \cup {Head(ids)})

\* _set_active: PEFT required; set_adapter(list) raises TypeError on old
\* PEFT versions, then only a single adapter can be set
set_active_ok(ids) == ensure_peft /\ (multi_supported \/ Len(ids) <= 1)

\* the branch `if ids: load all, _set_active(ids) else: _disable_adapters()`
Apply(ids) ==
    IF ids = <<>> THEN [ok |-> TRUE, loaded |-> loaded, applied |-> <<>>]
    ELSE LET l == ensure_loaded(ids, loaded)
         IN IF l.ok /\ set_active_ok(ids)
            THEN [ok |-> TRUE, loaded |-> l.loaded, applied |-> ids]
            ELSE [ok |-> FALSE, loaded |-> l.loaded, applied |-> applied]

\* a lock that never makes a second thread wait
lock_available_always(t) == TRUE

\* RLock: free, or already held by the calling thread
lock_available(t) == lockOwner = NoThread \/ lockOwner = t

\* the scope exit restoring the set it had requested itself
restored_requested(frame) == frame.requested

\* `self.active = previous` in the finally block of activation_scope
restored(frame) == frame.previous

\* an exit that leaves the lock to the garbage collector
released_never(count) == count

\* self._lock.release()
released(count) == count - 1

NoOp == [op |-> "none", t |-> NoThread, how |-> "none", before_active |-> <<>>,
         before_count |-> 0, held |-> 0, left |-> <<>>, depth |-> 0, nested |-> FALSE]

AdapterInit ==
    /\ built = FALSE
    /\ peft_available = FALSE
    /\ loadable = {}
    /\ multi_supported = FALSE
    /\ active = <<>>
    /\ applied = <<>>
    /\ loaded = {}
    /\ lockOwner = NoThread
    /\ lockCount = 0
    /\ frames = [t \in Threads |-> <<>>]
    /\ entered = [t \in Threads |-> <<>>]
    /\ entryFailed = [t \in Threads |-> FALSE]
    /\ lastOp = NoOp

AdapterFrame ==
    /\ built
    /\ UNCHANGED <<hookVars, runVars, libVars, built, peft_available, loadable, multi_supported>>

\* AdapterManager.__init__, lines 96-113: no adapter active or loaded, a
\* fresh lock, and _check_peft() probes the installation; which adapter
\* files load and whether set_adapter takes a list are facts of the
\* installation as well
Construct ==
    /\ ~built
    /\ built' = TRUE
    /\ peft_available' \in BOOLEAN
    /\ loadable' \in SUBSET Adapters
    /\ multi_supported' \in BOOLEAN
    /\ active' = <<>>
    /\ loaded' = {}
    /\ UNCHANGED <<applied, lockOwner, lockCount, frames, entered, entryFailed, lastOp>>
    /\ UNCHANGED <<hookVars, runVars, libVars>>

\* the calling thread changed the set inside its innermost open scope
Touch(t) ==
    IF entered[t] = <<>> THEN entered
    ELSE [entered EXCEPT ![t] = [@ EXCEPT ![Len(@)].touched = TRUE]]

\* activate(adapter_ids), lines 115-126, returning normally
Activate(t, ids) ==
    /\ lock_available(t)
    /\ Apply(ids).ok
    /\ loaded' = Apply(ids).loaded
    /\ applied' = Apply(ids).applied
    /\ active' = ids
    /\ entered' = Touch(t)
    /\ lastOp' = NoOp
    /\ UNCHANGED <<lockOwner, lockCount, frames, entryFailed>>
    /\ AdapterFrame

\* activate(adapter_ids) raising inside `with self._lock`: the lock is
\* released by the with statement, self.active is not assigned
ActivateRaises(t, ids) ==
    /\ lock_available(t)
    /\ ~Apply(ids).ok
    /\ loaded' = Apply(ids).loaded
    /\ lastOp' = [NoOp EXCEPT !.op = "activate_raised", !.left = active]
    /\ UNCHANGED <<applied, active, entered, lockOwner, lockCount, frames, entryFailed>>
    /\ AdapterFrame

\* deactivate_all(), lines 128-131
DeactivateAll(t) ==
    /\ lock_available(t)
    /\ active' = <<>>
    /\ applied' = <<>>
    /\ entered' = Touch(t)
    /\ lastOp' = NoOp
    /\ UNCHANGED <<loaded, lockOwner, lockCount, frames, entryFailed>>
    /\ AdapterFrame

\* activation_scope(adapter_ids), lines 147-158, up to the yield
ScopeEnter(t, ids) ==
    /\ lock_available(t)
    /\ Len(frames[t]) < MaxDepth /\ lockCount < MaxLockCount
    /\ Apply(ids).ok
    /\ lockOwner' = t
    /\ lockCount' = lockCount + 1
    /\ loaded' = Apply(ids).loaded
    /\ applied' = Apply(ids).applied
    /\ active' = ids
    /\ frames' = [frames EXCEPT ![t] = Append(@, [previous |-> active, requested |-> ids])]
    /\ entered' = [entered EXCEPT ![t] = Append(@, [active |-> active, count |-> lockCount,
                                                     touched |-> FALSE, nested |-> FALSE])]
    /\ lastOp' = NoOp
    /\ UNCHANGED entryFailed
    /\ AdapterFrame

\* activation_scope(adapter_ids), lines 147-153: loading or _set_active
\* raises after self._lock.acquire() and before the try block
ScopeEnterRaises(t, ids) ==
    /\ lock_available(t)
    /\ Len(frames[t]) < MaxDepth /\ lockCount < MaxLockCount
    /\ ~Apply(ids).ok
    /\ lockOwner' = t
    /\ lockCount' = lockCount + 1
    /\ loaded' = Apply(ids).loaded
    /\ entryFailed' = [entryFailed EXCEPT ![t] = TRUE]
    /\ lastOp' = NoOp
    /\ UNCHANGED <<applied, active, frames, entered>>
    /\ AdapterFrame

\* activation_scope, lines 159-167: the body returned or raised and the
\* finally block runs: re-apply previous, self.active = previous, release
ScopeExit(t, how) ==
    /\ frames[t] # <<>>
    /\ LET frame == frames[t][Len(frames[t])]
           back == Apply(frame.previous)
       IN /\ loaded' = back.loaded
          /\ applied' = back.applied
          /\ IF back.ok
             THEN /\ active' = restored(frame)
                  /\ lockCount' = released(lockCount)
                  /\ lockOwner' = IF released(lockCount) = 0 THEN NoThread ELSE lockOwner
             ELSE UNCHANGED <<active, lockCount, lockOwner>>
    /\ frames' = [frames EXCEPT ![t] = SubSeq(@, 1, Len(@) - 1)]
    /\ entered' = [entered EXCEPT ![t] =
                      IF Len(@) = 1 THEN <<>>
                      ELSE [SubSeq(@, 1, Len(@) - 1) EXCEPT ![Len(@) - 1].nested = TRUE]]
    /\ lastOp' = [op |-> "scope_exit", t |-> t, how |-> how,
                  before_active |-> entered[t][Len(entered[t])].active,
                  before_count |-> entered[t][Len(entered[t])].count,
                  held |-> lockCount,
                  left |-> active,
                  depth |-> Len(frames[t]),
                  nested |-> entered[t][Len(entered[t])].nested]
    /\ UNCHANGED entryFailed
    /\ AdapterFrame

AdapterNext ==
    \/ Construct
    \/ \E t \in Threads, ids \in IdLists : Activate(t, ids)
    \/ \E t \in Threads, ids \in IdLists : ActivateRaises(t, ids)
    \/ \E t \in Threads : DeactivateAll(t)
    \/ \E t \in Threads, ids \in IdLists : ScopeEnter(t, ids)
    \/ \E t \in Threads, ids \in IdLists : ScopeEnterRaises(t, ids)
    \/ \E t \in Threads, how \in {"return", "raise"} : ScopeExit(t, how)

(***************************************************************************)
(* rank_heads_by_importance applied to arbitrary statistics (metrics.py).  *)
(***************************************************************************)
MaxScore == 2       \* importance means range over 0..MaxScore

\* head keys of layers 1, 2, 10 (string order and number order differ)
RankKeys == {<<1, 0>>, <<2, 0>>, <<10, 0>>, <<2, 1>>}
NoStats == [k \in {} |-> ZeroStats]

RankInit ==
    /\ rankIn = NoStats
    /\ rankOut = <<>>

\* rank_heads_by_importance(aggregated_importance), lines 91-105, top_k None
RankHeads(aggregated_importance) ==
    /\ rankIn' = aggregated_importance
    /\ rankOut' = rank_heads_by_importance(aggregated_importance)
    /\ RankFrame

RankNext ==
    \E keys \in SUBSET RankKeys :
        \E means \in [keys -> 0..MaxScore] :
            RankHeads([k \in keys |-> [mean |-> means[k], min |-> 0, max |-> MaxScore]])

(***************************************************************************)
(* The probe train/test split (runner.py).                                 *)
(***************************************************************************)
MaxSamples == 120   \* sample counts range over 1..MaxSamples

\* a split that keeps every sample for training
probe_split_all_train(num_samples) == <<num_samples, num_samples>>

\* _probe_split_indices, lines 725-731; int(num_samples * 0.8) truncates
\* the product, which is floor(8 * num_samples / 10) for these counts
probe_split_indices(num_samples) ==
    IF num_samples <= 1 THEN <<num_samples, num_samples>>
    ELSE LET scaled == (num_samples * 8) \div 10
             train_end0 == IF scaled > 1 THEN scaled ELSE 1
         IN IF train_end0 >= num_samples
            THEN <<num_samples - 1, num_samples - 1>>
            ELSE <<train_end0, train_end0>>

\* the sample indices selected by array[lo:hi] on an array of n samples
\* (lo, hi >= 0; bounds past the end are clipped)
SliceIdx(lo, hi, n) == {i \in 0..(n - 1) : lo <= i /\ i < hi}

SplitInit ==
    /\ splitN = 0
    /\ train_end = 0
    /\ test_start = 0
    /\ trainIdx = {}
    /\ testIdx = {}

\* _train_and_evaluate, lines 343-348: split the stacked activations of one hook
SplitSamples(n) ==
    /\ splitN' = n
    /\ train_end' = probe_split_indices(n)[1]
    /\ test_start' = probe_split_indices(n)[2]
    /\ trainIdx' = SliceIdx(0, probe_split_indices(n)[1], n)
    /\ testIdx' = SliceIdx(probe_split_indices(n)[2], n, n)
    /\ SplitFrame

SplitNext == \E n \in 1..MaxSamples : SplitSamples(n)

(***************************************************************************)
(* compute_pca (geometry.py).                                              *)
(***************************************************************************)
MaxDim == 3          \* matrices have up to MaxDim samples and features
MaxComponents == 3   \* requested components range over 1..MaxComponents

Entries == {0, 1}
Matrices ==
    UNION {[1..n -> [1..m -> Entries]] : n \in 1..MaxDim, m \in 1..MaxDim}

\* matrix.shape
Shape(matrix) == <<Len(matrix), Len(matrix[1])>>

\* vh.shape[0] of np.linalg.svd(centered, full_matrices=False):
\* min(samples, features)
vh_rows(matrix) ==
    IF Shape(matrix)[1] < Shape(matrix)[2] THEN Shape(matrix)[1] ELSE Shape(matrix)[2]

\* compute_pca, lines 38-54: ValueError below two samples, otherwise
\* top_components = min(components, vh.shape[0]) rows of vh are returned
compute_pca(matrix, components) ==
    IF Shape(matrix)[1] < 2 THEN [status |-> "ValueError", count |-> 0]
    ELSE [status |-> "ok",
          count |-> IF components < vh_rows(matrix) THEN components ELSE vh_rows(matrix)]

PcaInit ==
    /\ pcaMatrix = <<>>
    /\ pcaRequested = 0
    /\ pcaStatus = "none"
    /\ pcaCount = 0

\* one call compute_pca(matrix, components=components)
ComputePca(matrix, components) ==
    /\ pcaStatus = "none"
    /\ pcaMatrix' = matrix
    /\ pcaRequested' = components
    /\ pcaStatus' = compute_pca(matrix, components).status
    /\ pcaCount' = compute_pca(matrix, components).count
    /\ PcaFrame

PcaNext ==
    /\ pcaStatus = "none"
    /\ \E matrix \in Matrices, components \in 1..MaxComponents :
           ComputePca(matrix, components)

(***************************************************************************)
(* Residual modes (geometry_viz/residuals.py, residual_metadata.py,        *)
(* integration.py).  A ResidualMode is followed by its mode_index and the  *)
(* length of its projection_coords list.                                   *)
(***************************************************************************)
MaxResSamples == 8   \* residual matrices have up to MaxResSamples samples
DefaultModes == 3    \* k of summarize_residual_modes_for_layer

NoResIn == [producer |-> "none", samples |-> 0, dim |-> 0, k |-> 0, other |-> 0]
NoModes == [status |-> "ok", modes |-> <<>>, sample_count |-> 0]
Raised(err) == [status |-> err, modes |-> <<>>, sample_count |-> 0]

\* every mode carrying the index 0
mode_indices_constant(k) == [i \in 1..k |-> 0]

\* `for idx in range(k)`: mode_index = idx
mode_indices(k) == [i \in 1..k |-> i - 1]

\* compute_residual_modes, lines 57-105, on residuals of shape (n, d):
\* k is clamped to 1..min(n, d); scores has k columns, and with a single
\* column `for x, y in scores[:, :2]` cannot unpack a row (ValueError);
\* otherwise every mode lists one 2D coordinate per sample
compute_residual_modes(n, d, k) ==
    IF n < 2 THEN Raised("ValueError")
    ELSE LET least == IF n < d THEN n ELSE d
             capped == IF k < least THEN k ELSE least
             kk == IF capped < 1 THEN 1 ELSE capped
         IN IF kk < 2 THEN Raised("ValueError")
            ELSE [status |-> "ok",
                  modes |-> [i \in 1..kk |-> [mode_index |-> mode_indices(kk)[i],
                                               projection_coords |-> n]],
                  sample_count |-> n]

\* compute_hidden_residuals + summarize_residual_modes_for_layer, lines 17-27
\* and 108-120, on hidden states of n and n_adapter samples
summarize_residual_modes_for_layer(n, n_adapter, d) ==
    IF n # n_adapter THEN Raised("ValueError")
    ELSE compute_residual_modes(n, d, DefaultModes)

\* validate_residual_metadata, lines 36-92; ResidualMode (schema.py:94-119)
\* declares no projection_coords_3d field, so reading it from the first
\* mode that passed the 2D check raises AttributeError
validate_residual_metadata(modes, sample_count) ==
    IF sample_count < 0 THEN "ValueError"
    ELSE IF modes # <<>> /\ sample_count = 0 THEN "ValueError"
    ELSE IF modes = <<>> THEN "ok"
    ELSE IF modes[1].projection_coords \notin {0, sample_count} THEN "ValueError"
    ELSE "AttributeError"

\* generate_residual_modes, lines 95-141: max(1, mode_count) modes sharing
\* one projection cloud of sample_count points, then validated
generate_residual_modes(sample_count, mode_count) ==
    IF sample_count < 0 THEN Raised("ValueError")
    ELSE LET count == IF mode_count < 1 THEN 1 ELSE mode_count
             modes == [i \in 1..count |-> [mode_index |-> mode_indices(count)[i],
                                            projection_coords |-> sample_count]]
             verdict == validate_residual_metadata(modes, sample_count)
         IN IF verdict # "ok" THEN Raised(verdict)
            ELSE [status |-> "ok", modes |-> modes, sample_count |-> sample_count]

ResInit ==
    /\ resIn = NoResIn
    /\ resStatus = "none"
    /\ resModes = <<>>
    /\ resSampleCount = 0

Produced(input, out) ==
    /\ resStatus = "none"
    /\ resIn' = input
    /\ resStatus' = out.status
    /\ resModes' = out.modes
    /\ resSampleCount' = out.sample_count
    /\ ResFrame

\* _maybe_sample_residual_modes, lines 118-134, with a sampler payload:
\* (modes, base_hidden.shape[0])
SampleResidualModes(n, n_adapter, d) ==
    Produced([NoResIn EXCEPT !.producer = "sample", !.samples = n, !.dim = d,
                             !.other = n_adapter],
             summarize_residual_modes_for_layer(n, n_adapter, d))

\* _maybe_sample_residual_modes without sampler or payload: ([], 0)
SkipResidualSampling ==
    Produced([NoResIn EXCEPT !.producer = "skip"], NoModes)

\* MockTelemetryGenerator.generate_run: compute_residual_modes(residuals,
\* k=config.residual_modes) recorded with residual_sample_count=sample_count
ComputeResidualModes(n, d, k) ==
    Produced([NoResIn EXCEPT !.producer = "compute", !.samples = n, !.dim = d, !.k = k],
             compute_residual_modes(n, d, k))

\* generate_residual_modes(layer_index, sample_count, mode_count=mode_count)
GenerateResidualModes(sample_count, mode_count) ==
    Produced([NoResIn EXCEPT !.producer = "generate", !.samples = sample_count,
                             !.k = mode_count],
             generate_residual_modes(sample_count, mode_count))

ResNext ==
    \/ \E n \in 1..MaxResSamples, m \in 1..MaxResSamples, d \in 1..MaxDim :
           SampleResidualModes(n, m, d)
    \/ SkipResidualSampling
    \/ \E n \in 1..MaxResSamples, d \in 1..MaxDim, k \in 0..(MaxComponents + 1) :
           ComputeResidualModes(n, d, k)
    \/ \E sample_count \in (0 - 1)..MaxResSamples, mode_count \in 0..MaxComponents :
           GenerateResidualModes(sample_count, mode_count)

(***************************************************************************)
(* Task progress (platform/result_processor.py).                           *)
(***************************************************************************)
MaxRunsNeeded == 3   \* runs_needed and the initial runs_completed are at most this
MaxTaskCalls == 4    \* update_task_progress calls on the task

NoTask == [status |-> "none", runs_needed |-> 0, runs_completed |-> 0]
NoCall == [call |-> "none", before |-> NoTask]

\* counts the call whether or not the result was valid
update_task_progress_unconditional(t, is_valid) ==
    LET completed == t.runs_completed + 1
    IN [t EXCEPT !.runs_completed = completed,
                 !.status = IF completed >= t.runs_needed THEN "completed" ELSE "open"]

\* update_task_progress, lines 34-41: the row after the call
update_task_progress(t, is_valid) ==
    IF is_valid
    THEN LET completed == t.runs_completed + 1
         IN [t EXCEPT !.runs_completed = completed,
                      !.status = IF completed >= t.runs_needed THEN "completed" ELSE "open"]
    ELSE t

TaskInit ==
    /\ task = NoTask
    /\ taskInitial = 0
    /\ taskValidCalls = 0
    /\ taskLast = NoCall

\* Task(runs_needed=..., runs_completed=..., status=...)
CreateTask(status, runs_needed, runs_completed) ==
    /\ task = NoTask
    /\ task' = [status |-> status, runs_needed |-> runs_needed,
                runs_completed |-> runs_completed]
    /\ taskInitial' = runs_completed
    /\ UNCHANGED <<taskValidCalls, taskLast>>
    /\ TaskFrame

UpdateTaskProgress(is_valid) ==
    /\ task # NoTask
    /\ task.runs_completed < taskInitial + MaxTaskCalls
    /\ task' = update_task_progress(task, is_valid)
    /\ taskValidCalls' = IF is_valid THEN taskValidCalls + 1 ELSE taskValidCalls
    /\ taskLast' = [call |-> IF is_valid THEN "valid" ELSE "invalid", before |-> task]
    /\ UNCHANGED taskInitial
    /\ TaskFrame

TaskNext ==
    \/ \E status \in {"open", "completed", "paused"},
          runs_needed \in 0..MaxRunsNeeded, runs_completed \in 0..MaxRunsNeeded :
           CreateTask(status, runs_needed, runs_completed)
    \/ \E is_valid \in BOOLEAN : UpdateTaskProgress(is_valid)

(***************************************************************************)
(* Dataset release status (platform/datasets.py).  created_at is counted   *)
(* in hours; a verifier is followed by the three fields eligibility reads. *)
(***************************************************************************)
VERIFICATION_REQUIRED_RUNS == 5
VERIFICATION_ACCOUNT_AGE_DAYS == 7
VERIFICATION_SPACING_HOURS == 24
VERIFIED_THRESHOLD == 3
OFFICIAL_THRESHOLD == 7
FLAG_THRESHOLD == 10

MaxSlot == 12   \* verifications are created at 0, 12, ..., 12 * MaxSlot hours

Times == {12 * slot : slot \in 0..MaxSlot}

Seasoned == [banned |-> FALSE, runs_completed |-> VERIFICATION_REQUIRED_RUNS,
             age_days |-> VERIFICATION_ACCOUNT_AGE_DAYS]
Idle == [Seasoned EXCEPT !.runs_completed = VERIFICATION_REQUIRED_RUNS - 1]
Recent == [Seasoned EXCEPT !.age_days = VERIFICATION_ACCOUNT_AGE_DAYS - 1]
Banned == [Seasoned EXCEPT !.banned = TRUE]

\* lines 33-38
eligible_for_verification(contributor) ==
    /\ ~contributor.banned
    /\ contributor.runs_completed >= VERIFICATION_REQUIRED_RUNS
    /\ contributor.age_days >= VERIFICATION_ACCOUNT_AGE_DAYS

\* sorted(verifications, key=lambda item: item.created_at)
RECURSIVE OrderedByCreatedAt(_)
OrderedByCreatedAt(verifications) ==
    IF verifications = {} THEN <<>>
    ELSE LET first == CHOOSE v \in verifications :
                          \A w \in verifications : v.created_at <= w.created_at
         IN <<first>> \o OrderedByCreatedAt(verifications \ {first})

\* rejects neighbours exactly one spacing apart as well
verifications_spaced_strict(verifications) ==
    LET ordered == OrderedByCreatedAt(verifications)
    IN \A i \in 1..(Len(ordered) - 1) :
           ~(ordered[i + 1].created_at - ordered[i].created_at <= VERIFICATION_SPACING_HOURS)

\* lines 49-55
verifications_spaced(verifications) ==
    LET ordered == OrderedByCreatedAt(verifications)
    IN \A i \in 1..(Len(ordered) - 1) :
           ~(ordered[i + 1].created_at - ordered[i].created_at < VERIFICATION_SPACING_HOURS)

\* lines 58-72: the verifications whose verifier is eligible
valid_verifications(records) ==
    {v \in records : eligible_for_verification(v.verifier)}

\* no verifier counts as banned
any_banned_verifier_never(records) == FALSE

\* lines 86-93
any_banned_verifier(records) == \E v \in records : v.verifier.banned

\* promotes to "official" whatever the current status
evaluate_dataset_status_promoting(status, records, flags) ==
    IF any_banned_verifier(records) THEN "deprecated"
    ELSE IF flags >= FLAG_THRESHOLD THEN "deprecated"
    ELSE LET flagged == IF flags > 0 /\ status # "deprecated" THEN "flagged" ELSE status
             verifications == valid_verifications(records)
         IN IF verifications = {} THEN flagged
            ELSE IF ~verifications_spaced(verifications) THEN flagged
            ELSE IF Cardinality(verifications) >= OFFICIAL_THRESHOLD THEN "official"
            ELSE IF Cardinality(verifications) >= VERIFIED_THRESHOLD /\ flagged = "draft"
                 THEN "verified"
            ELSE flagged

\* evaluate_dataset_status, lines 96-120: the status it leaves on the dataset
evaluate_dataset_status(status, records, flags) ==
    IF any_banned_verifier(records) THEN "deprecated"
    ELSE IF flags >= FLAG_THRESHOLD THEN "deprecated"
    ELSE LET flagged == IF flags > 0 /\ status # "deprecated" THEN "flagged" ELSE status
             verifications == valid_verifications(records)
         IN IF verifications = {} THEN flagged
            ELSE IF ~verifications_spaced(verifications) THEN flagged
            ELSE IF /\ Cardinality(verifications) >= OFFICIAL_THRESHOLD
                    /\ flagged \notin {"deprecated", "flagged"}
                 THEN "official"
            ELSE IF Cardinality(verifications) >= VERIFIED_THRESHOLD /\ flagged = "draft"
                 THEN "verified"
            ELSE flagged

DatasetInit ==
    /\ dsBefore = "none"
    /\ dsVerifications = {}
    /\ dsFlags = 0
    /\ dsStatus = "none"

\* Verification tables: one eligible verifier per chosen instant, and at
\* most one verifier of another kind
VerificationsAt(slots, others) ==
    {[created_at |-> t, verifier |-> Seasoned] : t \in slots}
        \cup {[created_at |-> 0, verifier |-> c] : c \in others}

EvaluateDatasetStatus(status, records, flags) ==
    /\ dsStatus = "none"
    /\ dsBefore' = status
    /\ dsVerifications' = records
    /\ dsFlags' = flags
    /\ dsStatus' = evaluate_dataset_status(status, records, flags)
    /\ DatasetFrame

DatasetNext ==
    /\ dsStatus = "none"
    /\ \E status \in {"draft", "verified", "official", "flagged", "deprecated"},
          slots \in SUBSET Times,
          others \in {{}, {Idle}, {Recent}, {Banned}},
          flags \in {0, 1, FLAG_THRESHOLD, FLAG_THRESHOLD + 1} :
           EvaluateDatasetStatus(status, VerificationsAt(slots, others), flags)

\* The life of one dataset: created as a draft, then evaluated again after
\* each change of its verification and flag tables (verify_dataset and
\* flag_dataset add a row and evaluate; bans change the verifiers).  The
\* tables hold the first `count` of a chain of eligible verifications one
\* spacing apart, and at most one verifier of another kind.
ChainRecords ==
    {VerificationsAt({VERIFICATION_SPACING_HOURS * i : i \in 0..(count - 1)}, others) :
        count \in 0..OFFICIAL_THRESHOLD, others \in {{}, {Recent}, {Banned}}}

ReevaluateDatasetStatus(records, flags) ==
    /\ dsStatus # "none"
    /\ dsBefore' = dsStatus
    /\ dsVerifications' = records
    /\ dsFlags' = flags
    /\ dsStatus' = evaluate_dataset_status(dsStatus, records, flags)
    /\ DatasetFrame

DatasetLifeNext ==
    \E records \in ChainRecords, flags \in {0, 1, FLAG_THRESHOLD} :
        \/ EvaluateDatasetStatus("draft", records, flags)
        \/ ReevaluateDatasetStatus(records, flags)

(***************************************************************************)
(* Findings of a task (platform/result_processor.py).  Strings are         *)
(* sequences of characters, so that f"{ftype}:{desc}" is a concatenation.  *)
(***************************************************************************)
MaxResults == 2    \* Result rows submitted for the task
MaxFindings == 2   \* findings listed in one result_summary

Reported ==
    {[finding_type |-> <<"a">>, description |-> <<"c">>],
     [finding_type |-> <<"a">>, description |-> <<"b", ":", "c">>],
     [finding_type |-> <<"a", ":", "b">>, description |-> <<"c">>]}

FindingLists == UNION {[1..n -> Reported] : n \in 0..MaxFindings}

\* key = f"{ftype}:{desc}"
bucket_key(finding) == finding.finding_type \o <<":">> \o finding.description

\* lines 50-63: buckets after the findings of the valid results, in order;
\* setdefault keeps the type and description of the first finding of a key
RECURSIVE Buckets(_, _)
Buckets(findings, buckets) ==
    IF findings = <<>> THEN buckets
    ELSE LET finding == Head(findings)
             k == bucket_key(finding)
             known == \E i \in DOMAIN buckets : buckets[i].key = k
             next == IF known
                     THEN [i \in DOMAIN buckets |->
                              IF buckets[i].key = k
                              THEN [buckets[i] EXCEPT !.count = @ + 1]
                              ELSE buckets[i]]
                     ELSE Append(buckets, [key |-> k, type |-> finding.finding_type,
                                           description |-> finding.description,
                                           count |-> 1])
         IN Buckets(Tail(findings), next)

RECURSIVE Flatten(_)
Flatten(results) ==
    IF results = <<>> THEN <<>>
    ELSE Head(results).findings \o Flatten(Tail(results))

\* lines 66-90: one Finding row per bucket, updated in place when a row with
\* the bucket's type and description exists; confidence = count / total is
\* kept as the pair supporting_runs, total
RECURSIVE Upsert(_, _, _)
Upsert(buckets, total, findings_table) ==
    IF buckets = <<>> THEN findings_table
    ELSE LET entry == Head(buckets)
             others == {fr \in findings_table : ~(/\ fr.finding_type = entry.type
                                        /\ fr.description = entry.description)}
         IN Upsert(Tail(buckets), total,
                   others \cup {[finding_type |-> entry.type,
                                 description |-> entry.description,
                                 supporting_runs |-> entry.count,
                                 total |-> total]})

\* aggregate_findings, lines 44-90
aggregate_findings(results, findings_table) ==
    LET valid == SelectSeq(results, LAMBDA res : res.is_valid)
    IN IF valid = <<>> THEN findings_table
       ELSE Upsert(Buckets(Flatten(valid), <<>>), Len(valid), findings_table)

AggInit ==
    /\ aggResults = <<>>
    /\ findingRows = {}

\* submit_results: the Result row is added, then aggregate_findings(task)
SubmitResult(is_valid, findings) ==
    /\ Len(aggResults) < MaxResults
    /\ aggResults' = Append(aggResults, [is_valid |-> is_valid, findings |-> findings])
    /\ findingRows' = aggregate_findings(aggResults', findingRows)
    /\ AggFrame

AggNext == \E is_valid \in BOOLEAN, findings \in FindingLists :
               SubmitResult(is_valid, findings)

(***************************************************************************)
(* Layer limit of load_and_run (phi2_experiments/runner.py).               *)
(***************************************************************************)
MaxLayers == 3   \* spec.layers lists up to MaxLayers layers

LayerLists == UNION {[1..n -> 0..(NumBlocks - 1)] : n \in 0..MaxLayers}

\* An optional integer is <<>> for None and <<n>> for n.
NoLimit == <<>>

\* values[:stop] for stop >= 0, and values[:None]
SliceTo(values, stop) ==
    IF stop = NoLimit THEN values
    ELSE SubSeq(values, 1, IF stop[1] < Len(values) THEN stop[1] ELSE Len(values))

\* lines 994-996: spec.layers after the clip; `layer_limit or None` turns a
\* limit of 0 into None
clip_layers(layers, layer_limit) ==
    IF layer_limit # NoLimit /\ layer_limit[1] >= 0
    THEN SliceTo(layers, IF layer_limit[1] = 0 THEN NoLimit ELSE layer_limit)
    ELSE layers

LimitInit ==
    /\ limitIn = <<>>
    /\ limitLayers = <<>>

LoadAndRun(layers, layer_limit) ==
    /\ limitIn' = <<layers, layer_limit>>
    /\ limitLayers' = clip_layers(layers, layer_limit)
    /\ LimitFrame

LimitNext ==
    /\ limitIn = <<>>
    /\ \E layers \in LayerLists, layer_limit \in {NoLimit} \cup {<<n>> : n \in (0 - 1)..(MaxLayers + 1)} :
           LoadAndRun(layers, layer_limit)

(***************************************************************************)
(* Geometry telemetry (geometry_viz/recorder.py, integration.py and the    *)
(* runner's _record_geometry / _finalize_geometry).  An optional summary   *)
(* is <<>> for None and <<summary>> otherwise.                             *)
(***************************************************************************)
MaxTimeline == 2   \* timeline samples a direct client logs
MaxGeoRuns == 3    \* ExperimentRunner.run calls on one runner

RunIds == {"geometry_a", "geometry_b"}

\* _reset, lines 34-42
FreshRecorder == [run_id |-> None, layers |-> {}, timeline |-> <<>>, summary |-> <<>>]
NoRecCall == [op |-> "none", raised |-> None, before |-> FreshRecorder]
NoGeoRun == [began |-> FALSE, finalized |-> FALSE, outcome |-> "none"]

Returned(rec) == [raised |-> None, rec |-> rec]
Rejected(rec) == [raised |-> "RuntimeError", rec |-> rec]

\* starts a run whatever the recorder holds
begin_run_restarting(rec, run_id) ==
    Returned([run_id |-> run_id, layers |-> {}, timeline |-> <<>>, summary |-> <<>>])

\* begin_run, lines 44-76
begin_run(rec, run_id) ==
    IF rec.run_id # None THEN Rejected(rec)
    ELSE Returned([run_id |-> run_id, layers |-> {}, timeline |-> <<>>, summary |-> <<>>])

\* log_layer_snapshot, lines 78-113: the latest snapshot of a layer replaces
\* the earlier one, the summary is dropped, the timeline grows
log_layer_snapshot(rec, layer_index, step, with_timeline) ==
    IF rec.run_id = None THEN Rejected(rec)
    ELSE Returned([rec EXCEPT
             !.layers = {l \in @ : l.layer_index # layer_index}
                            \cup {[layer_index |-> layer_index, step |-> step]},
             !.summary = <<>>,
             !.timeline = IF with_timeline
                          THEN Append(@, [step |-> step, layer_index |-> layer_index])
                          ELSE @])

\* end_run, lines 115-141
end_run(rec) ==
    IF rec.run_id = None THEN Rejected(rec)
    ELSE IF rec.summary # <<>> THEN Returned(rec)
    ELSE Returned([rec EXCEPT !.summary = <<[run_id |-> rec.run_id, layers |-> rec.layers,
                                              timeline |-> rec.timeline]>>])

\* log_model_geometry, lines 137-165: one snapshot and one timeline point
\* per layer of the model
RECURSIVE log_model_geometry(_, _, _)
log_model_geometry(rec, step, layer_idx) ==
    IF layer_idx >= NumBlocks THEN rec
    ELSE log_model_geometry(log_layer_snapshot(rec, layer_idx, step, TRUE).rec,
                            step, layer_idx + 1)

GeoInit ==
    /\ recorder = FreshRecorder
    /\ recSaved = <<>>
    /\ recCall = NoRecCall
    /\ recDirectUse = FALSE
    /\ geoStarted = FALSE
    /\ geoRunId = None
    /\ geoRuns = 0
    /\ geoLastRun = NoGeoRun

\* A call a client makes on the recorder itself
DirectCall(op, out) ==
    /\ recorder' = out.rec
    /\ recCall' = [op |-> op, raised |-> out.raised, before |-> recorder]
    /\ recDirectUse' = TRUE
    /\ UNCHANGED <<geoStarted, geoRunId, geoRuns, geoLastRun>>
    /\ GeoFrame

BeginRun(run_id) ==
    /\ DirectCall("begin_run", begin_run(recorder, run_id))
    /\ UNCHANGED recSaved

LogLayerSnapshot(layer_index, with_timeline) ==
    /\ Len(recorder.timeline) < MaxTimeline
    /\ DirectCall("log_layer_snapshot",
                  log_layer_snapshot(recorder, layer_index, 0, with_timeline))
    /\ UNCHANGED recSaved

EndRun ==
    /\ DirectCall("end_run", end_run(recorder))
    /\ UNCHANGED recSaved

\* save, lines 143-151: summary = self._summary or self.end_run()
Save ==
    /\ DirectCall("save", end_run(recorder))
    /\ recSaved' = IF end_run(recorder).raised = None
                   THEN end_run(recorder).rec.summary ELSE recSaved

\* ExperimentRunner.run, lines 102-132, on a runner holding the recorder:
\* _record_geometry(step=0) before the try, the experiment, then
\* _record_geometry(step=1), and _finalize_geometry in the finally clause
Run(run_id, experiment_ok) ==
    /\ geoRuns < MaxGeoRuns
    /\ geoRuns' = geoRuns + 1
    /\ UNCHANGED recDirectUse
    /\ GeoFrame
    /\ LET begun == IF geoStarted THEN Returned(recorder) ELSE begin_run(recorder, run_id)
       IN IF begun.raised # None
          THEN \* begin_geometry_run raises out of run(); the finally is not reached
               /\ recCall' = [op |-> "begin_run", raised |-> begun.raised, before |-> recorder]
               /\ geoLastRun' = [began |-> FALSE, finalized |-> FALSE, outcome |-> "RuntimeError"]
               /\ UNCHANGED <<recorder, recSaved, geoStarted, geoRunId>>
          ELSE LET first == log_model_geometry(begun.rec, 0, 0)
                   last == IF experiment_ok THEN log_model_geometry(first, 1, 0) ELSE first
                   ended == end_run(last)
               IN /\ recorder' = ended.rec
                  /\ recSaved' = ended.rec.summary
                  /\ recCall' = [op |-> "save", raised |-> None, before |-> last]
                  /\ geoStarted' = FALSE
                  /\ geoRunId' = None
                  /\ geoLastRun' = [began |-> TRUE, finalized |-> TRUE,
                                    outcome |-> IF experiment_ok THEN "returned" ELSE "raised"]

GeoNext ==
    \/ \E run_id \in RunIds : BeginRun(run_id)
    \/ \E layer_index \in 0..(NumBlocks - 1), with_timeline \in BOOLEAN :
           LogLayerSnapshot(layer_index, with_timeline)
    \/ EndRun
    \/ Save
    \/ \E run_id \in RunIds, experiment_ok \in BOOLEAN : Run(run_id, experiment_ok)

(***************************************************************************)
(* Agents of OrchestrationRunner.run_async (orchestration/runner.py,       *)
(* phi2_agents/base_agent.py): one worker thread per agent, one shared     *)
(* AdapterManager and model.                                               *)
(***************************************************************************)

\* AgentConfig.default_lenses of the agent run by thread t
default_lenses(t) == IF t % 2 = 1 THEN <<"a">> ELSE <<>>

NoGeneration == [agent |-> NoThread, active |-> <<>>, scoped_by |-> {}]

AgentInit == generation = NoGeneration

\* run_async, line 163: _apply_lens_selection before the agents are started
ApplyLensSelection(t, ids) ==
    /\ \A o \in Threads : frames[o] = <<>>
    /\ Activate(t, ids)

\* BaseAgent.chat, lines 55-56: an agent with default lenses enters
\* activation_scope(default_lenses)
ChatEnter(t) ==
    /\ default_lenses(t) # <<>>
    /\ frames[t] = <<>>
    /\ \/ ScopeEnter(t, default_lenses(t))
       \/ ScopeEnterRaises(t, default_lenses(t))

\* BaseAgent.chat, lines 57-58: model_manager.generate(prompt), inside the
\* scope for an agent with default lenses and with no lock taken otherwise
Generate(t) ==
    /\ built
    /\ default_lenses(t) # <<>> => frames[t] # <<>>
    /\ generation' = [agent |-> t, active |-> active,
                      scoped_by |-> {o \in Threads : frames[o] # <<>>}]
    /\ AgentFrame

\* BaseAgent.chat, line 57: the with statement is left
ChatExit(t, how) ==
    /\ default_lenses(t) # <<>>
    /\ ScopeExit(t, how)

AgentNext ==
    \/ Construct
    \/ \E t \in Threads, ids \in IdLists : ApplyLensSelection(t, ids)
    \/ \E t \in Threads : ChatEnter(t)
    \/ \E t \in Threads : Generate(t)
    \/ \E t \in Threads, how \in {"return", "raise"} : ChatExit(t, how)

(***************************************************************************)
(* Rate limiting (platform/rate_limit.py) for one client IP and one        *)
(* bucket; a key is a request path.                                        *)
(***************************************************************************)
RateLimit == 1      \* _RATE_LIMITS[...], read from the environment
RateWindow == 2     \* _WINDOW_SECONDS, read from the environment
BanThreshold == 2   \* _BAN_THRESHOLD, read from the environment
MaxTime == 3        \* the clock runs from 0 to MaxTime
MaxOver == 2        \* a counter is followed up to RateLimit + MaxOver

Paths == {"/tasks", "/results"}
NoCount == [count |-> 0, start |-> 0]
NoRequest == [key |-> "none", count |-> 0, rejected |-> FALSE]

\* _record_violation, lines 58-64, applied `times` times
record_violation(abuse, times) ==
    IF abuse + times >= BanThreshold THEN BanThreshold ELSE abuse + times

\* lines 77-78: client.incr(redis_key); client.expire(redis_key, window)
redis_incr(store, k, now) ==
    LET live == store[k].count > 0 /\ now < store[k].start
    IN [store EXCEPT ![k] = [count |-> (IF live THEN store[k].count ELSE 0) + 1,
                             start |-> now + RateWindow]]

\* lines 86-94: expired windows are dropped, then the key is counted
memory_count(counts, k, now) ==
    LET kept == [p \in Paths |->
                    IF counts[p].count > 0 /\ now - counts[p].start >= RateWindow
                    THEN NoCount ELSE counts[p]]
    IN [kept EXCEPT ![k] = IF kept[k].count = 0
                           THEN [count |-> 1, start |-> now]
                           ELSE [count |-> kept[k].count + 1, start |-> kept[k].start]]

\* lines 79-85: the HTTPException raised for count > limit is raised inside
\* the try block and caught by `except Exception: pass`, so the request
\* goes on to the in-process counter
exceeded_in_redis(count) == count > RateLimit

RateInit ==
    /\ rlBackend = "unset"
    /\ rlNow = 0
    /\ rlRedis = [p \in Paths |-> NoCount]
    /\ rlCounts = [p \in Paths |-> NoCount]
    /\ rlAbuse = 0
    /\ rlBanned = FALSE
    /\ rlLast = NoRequest

\* module import, lines 30-39
LoadRateLimit(backend) ==
    /\ rlBackend = "unset"
    /\ rlBackend' = backend
    /\ UNCHANGED <<rlNow, rlRedis, rlCounts, rlAbuse, rlBanned, rlLast>>
    /\ RateFrame

\* enforce_rate_limit, lines 67-99
EnforceRateLimit(k) ==
    /\ rlBackend # "unset"
    /\ rlRedis[k].count < RateLimit + MaxOver
    /\ rlCounts[k].count < RateLimit + MaxOver
    /\ LET store == redis_incr(rlRedis, k, rlNow)
           over == rlBackend = "redis" /\ exceeded_in_redis(store[k].count)
           done == rlBackend = "redis" /\ ~over
           counts == IF done THEN rlCounts ELSE memory_count(rlCounts, k, rlNow)
           rejected == ~done /\ counts[k].count > RateLimit
           abuse == record_violation(rlAbuse, (IF over THEN 1 ELSE 0)
                                                + (IF rejected THEN 1 ELSE 0))
       IN /\ rlRedis' = IF rlBackend = "redis" THEN store ELSE rlRedis
          /\ rlCounts' = counts
          /\ rlAbuse' = abuse
          /\ rlBanned' = (rlBanned \/ abuse >= BanThreshold)
          /\ rlLast' = [key |-> k,
                        count |-> IF rlBackend = "redis"
                                  THEN store[k].count ELSE counts[k].count,
                        rejected |-> rejected]
    /\ UNCHANGED <<rlBackend, rlNow>>
    /\ RateFrame

RateTick ==
    /\ rlBackend # "unset"
    /\ rlNow < MaxTime
    /\ rlNow' = rlNow + 1
    /\ UNCHANGED <<rlBackend, rlRedis, rlCounts, rlAbuse, rlBanned, rlLast>>
    /\ RateFrame

RateNext ==
    \/ \E backend \in {"redis", "memory"} : LoadRateLimit(backend)
    \/ \E k \in Paths : EnforceRateLimit(k)
    \/ RateTick

(***************************************************************************)
(* Task distribution (platform/task_queue.py, services/results.py).        *)
(* Results carry no findings, so aggregate_findings adds no row.           *)
(***************************************************************************)
NumContributors == 2   \* contributors asking for tasks and submitting results
NumTasks == 2          \* open tasks, in queue order (priority, created_at)
MaxSubmissions == 3    \* Result rows submitted in total

Contributors == 1..NumContributors
TaskIds == 1..NumTasks
NoTaskId == 0
NoNextTask == [contributor |-> 0, task |-> NoTaskId, had_results |-> 0]

RECURSIVE Total(_, _)
Total(counts, pairs) ==
    IF pairs = {} THEN 0
    ELSE LET pair == CHOOSE x \in pairs : TRUE
         IN counts[pair[1]][pair[2]] + Total(counts, pairs \ {pair})

\* next_task_for_contributor, lines 9-26: the first open, unfinished task
\* in queue order for which the contributor has no Result row
next_task_for_contributor(tasks, results, contributor_id) ==
    LET open == {t \in TaskIds : /\ tasks[t].status = "open"
                                 /\ tasks[t].runs_completed < tasks[t].runs_needed
                                 /\ results[contributor_id][t] = 0}
    IN IF open = {} THEN NoTaskId
       ELSE CHOOSE t \in open : \A o \in open : t <= o

QueueInit ==
    /\ qTasks = [t \in TaskIds |-> [status |-> "open", runs_needed |-> MaxRunsNeeded,
                                    runs_completed |-> 0]]
    /\ qResults = [c \in Contributors |-> [t \in TaskIds |-> 0]]
    /\ qCounted = [c \in Contributors |-> [t \in TaskIds |-> 0]]
    /\ qContributorRuns = [c \in Contributors |-> 0]
    /\ qLast = NoNextTask

NextTask(c) ==
    /\ LET t == next_task_for_contributor(qTasks, qResults, c)
       IN qLast' = [contributor |-> c, task |-> t,
                    had_results |-> IF t = NoTaskId THEN 0 ELSE qResults[c][t]]
    /\ UNCHANGED <<qTasks, qResults, qCounted, qContributorRuns>>
    /\ QueueFrame

\* submit_results, lines 66-104: the Result row is added whatever rows the
\* contributor already has for the task, then update_task_progress
SubmitResults(c, t, is_valid) ==
    /\ Total(qResults, Contributors \X TaskIds) < MaxSubmissions
    /\ qResults' = [qResults EXCEPT ![c][t] = @ + 1]
    /\ qContributorRuns' = [qContributorRuns EXCEPT ![c] = @ + 1]
    /\ qTasks' = [qTasks EXCEPT ![t] = update_task_progress(@, is_valid)]
    /\ qCounted' = [qCounted EXCEPT ![c][t] =
                       @ + (qTasks'[t].runs_completed - qTasks[t].runs_completed)]
    /\ UNCHANGED qLast
    /\ QueueFrame

QueueNext ==
    \/ \E c \in Contributors : NextTask(c)
    \/ \E c \in Contributors, t \in TaskIds, is_valid \in BOOLEAN : SubmitResults(c, t, is_valid)

LibInit == RankInit /\ SplitInit /\ PcaInit /\ ResInit /\ TaskInit /\ DatasetInit /\ AggInit /\ LimitInit /\ GeoInit /\ AgentInit /\ RateInit /\ QueueInit

Init == HookInit /\ RunInit /\ AdapterInit /\ LibInit

SpecHooks == Init /\ [][HookNext]_vars

SpecRunner == Init /\ [][RunNext]_vars

SpecAdapter == Init /\ [][AdapterNext]_vars

SpecRank == Init /\ [][RankNext]_vars

SpecSplit == Init /\ [][SplitNext]_vars

SpecPca == Init /\ [][PcaNext]_vars

SpecResidual == Init /\ [][ResNext]_vars

SpecTask == Init /\ [][TaskNext]_vars

SpecDataset == Init /\ [][DatasetNext]_vars

SpecDatasetLife == Init /\ [][DatasetLifeNext]_vars

SpecFindings == Init /\ [][AggNext]_vars

SpecLimit == Init /\ [][LimitNext]_vars

SpecGeometry == Init /\ [][GeoNext]_vars

SpecAgents == Init /\ [][AgentNext]_vars

SpecRateLimit == Init /\ [][RateNext]_vars

SpecQueue == Init /\ [][QueueNext]_vars

(***************************************************************************)
(* Properties of forward_with_hooks (checked under SpecHooks).             *)
(***************************************************************************)

\* C1: when control leaves forward_with_hooks, on any exit path, none of the
\* interceptors that this call registered is still attached to the model.
C1_NoInterceptorLeftOnExit ==
    hpc = "exited" => \A i \in DOMAIN modelHooks : modelHooks[i].mgr # calls

\* C2: as long as every earlier call completed (none was left inside
\* register()), the interceptors attached during a call are exactly those of
\* the call's own HookSpec, in particular none for an empty HookSpec, and all
\* empty-HookSpec passes on one record yield the same (loss, accuracy).
C2_OwnInterceptorsOnly ==
    ~regFailed =>
        /\ hpc = "forward" =>
              /\ modelHooks = handles
              /\ Len(handles) = Len(HookRequests(curSpec))
              /\ \A i \in DOMAIN handles :
                    /\ handles[i].kind = HookRequests(curSpec)[i].kind
                    /\ handles[i].key = key(HookRequests(curSpec)[i].point)
        /\ \A r \in Records : Cardinality(emptyResults[r]) <= 1

\* an empty-HookSpec pass has returned on a record that had an earlier empty
\* pass and then an ablation / intervention / recording pass
C2_Witness ==
    /\ ~regFailed /\ hpc = "exited" /\ lastExit = "returned"
    /\ curSpec = EmptySpec /\ reEmpty[curRec]

\* C3: a point that is both recorded and intervened on is captured after the
\* intervention: the recorded tensor is the component's output as modified
\* by the intervention interceptor.
C3_RecordedIsPostIntervention ==
    (hpc = "exited" /\ lastExit = "returned") =>
        \A i \in DOMAIN curSpec.record_points : \A j \in DOMAIN curSpec.interventions :
            curSpec.record_points[i] = curSpec.interventions[j].point =>
                lastActs[key(curSpec.record_points[i])]
                    = lastFinal[resolve_module(curSpec.record_points[i]).module]

(***************************************************************************)
(* Properties of ExperimentRunner.run (checked under SpecRunner).          *)
(***************************************************************************)
BaselinePassesOf(r) ==
    {i \in DOMAIN passLog : passLog[i].kind = "baseline" /\ passLog[i].rec = r}

Faulted == \E i \in DOMAIN passLog : passLog[i].status # "ok"

C8_UnregisteredDirectionFails ==
    (/\ cfg.type = "direction_intervention" /\ rpc # "idle" /\ cfg.records >= 1
     /\ \E i \in DOMAIN cfg.interventions :
            /\ cfg.interventions[i].delta = <<>>
            /\ cfg.interventions[i].direction # None
            /\ cfg.interventions[i].direction \notin Registry)
    => (rpc = "exited" /\ runExit = "ValueError" /\ passLog = <<>>)

ValidConfig(c) ==
    /\ c.type \in {"probe", "geometry"} => c.hooks # <<>>
    /\ c.type = "direction_intervention" => c.interventions # <<>>

\* C9: for every experiment type a valid spec over an empty dataset returns
\* a well-formed empty result (zero statistics, no per-point metrics, no
\* ranking entries, records = 0) without raising and without a forward pass.
C9_EmptyDatasetResult ==
    (rpc # "idle" /\ cfg.records = 0 /\ ValidConfig(cfg)) =>
        /\ passLog = <<>>
        /\ runExit \in {"none", "returned"}
        /\ runExit = "returned" =>
              /\ result.valid /\ result.type = cfg.type /\ result.records = 0
              /\ result.per_head = EmptyActs /\ result.ranking = <<>>
              /\ \A k \in DOMAIN result.summary : result.summary[k] = ZeroStats

\* a direction-intervention run over an empty dataset has returned
C9_Witness ==
    /\ cfg.type = "direction_intervention" /\ cfg.records = 0
    /\ runExit = "returned" /\ result.valid

C5_ScopeExitRestores ==
    lastOp.op = "scope_exit" =>
        /\ active = lastOp.before_active
        /\ applied = lastOp.before_active
        /\ lockCount = lastOp.held - 1
        /\ (lockCount = 0 <=> lockOwner = NoThread)

C5_Witness ==
    /\ lastOp.op = "scope_exit"
    /\ lastOp.how = "raise"
    /\ lastOp.before_active # <<>>
    /\ lastOp.left # lastOp.before_active

\* C6: for properly nested scopes on one thread, each exit restores the set
\* that was active immediately before its matching entry, the lock is held
\* once per open scope, and after the outermost exit the active set is the
\* set before the outermost entry and the lock is no longer held.  The
\* entries of the nesting are entries that reached their body.
C6_NestedScopesRestoreLIFO ==
    \A t \in Threads :
        ~entryFailed[t] =>
            /\ (frames[t] # <<>> => lockOwner = t)
            /\ (lockOwner = t => lockCount = Len(frames[t]))
            /\ \A k \in 1..Len(frames[t]) : frames[t][k].previous = entered[t][k].active
            /\ (lastOp.op = "scope_exit" /\ lastOp.t = t =>
                    /\ active = lastOp.before_active
                    /\ lockCount = lastOp.before_count
                    /\ (lastOp.depth = 1 => lockOwner = NoThread /\ lockCount = 0))

C6_Witness ==
    /\ lastOp.op = "scope_exit"
    /\ lastOp.depth = 1
    /\ lastOp.nested
    /\ ~entryFailed[lastOp.t]
    /\ lastOp.before_active # <<>>
    /\ lockOwner = NoThread

\* C7: while a thread is inside an activation_scope body it holds the lock,
\* so no other thread's activate, deactivate_all or activation_scope can
\* proceed: unless the thread itself changed the set, the active set and the
\* set applied to the model stay the ones the scope requested.
C7_ScopeBodyExcludesOtherThreads ==
    \A t \in Threads :
        frames[t] # <<>> =>
            /\ lockOwner = t
            /\ \A u \in Threads \ {t} : frames[u] = <<>>
            /\ (~entered[t][Len(entered[t])].touched =>
                    /\ active = frames[t][Len(frames[t])].requested
                    /\ applied = frames[t][Len(frames[t])].requested)

C7_Witness ==
    \E t \in Threads, u \in Threads :
        /\ u # t
        /\ frames[t] # <<>>
        /\ ~entered[t][Len(entered[t])].touched
        /\ active # <<>>
        /\ ~lock_available(u)
        /\ lastOp.op = "scope_exit"

(***************************************************************************)
(* Properties of hook addressing.                                          *)
(***************************************************************************)

\* C11: a HookPoint whose layer index lies outside [0, number of blocks)
\* always makes hook registration raise: no interceptor attached to the
\* network belongs to such a point, and no call whose HookSpec names such a
\* point gets past registration.
C11_OutOfRangeLayerRaises ==
    /\ \A i \in 1..Len(modelHooks) : modelHooks[i].key[1] \in 0..(NumBlocks - 1)
    /\ (hpc = "forward" =>
            \A r \in Range(HookRequests(curSpec)) :
                r.point.layer_idx \in 0..(NumBlocks - 1))

(***************************************************************************)
(* Properties of AdapterManager without the PEFT runtime.                  *)
(***************************************************************************)

\* C12: an AdapterManager is constructed also when PEFT is unavailable; in
\* that installation the requests that raise are exactly those with a
\* non-empty adapter list, and after an activate that raised the active
\* list is the one from before the call.
C12_PeftMissingFailsAtActivate ==
    /\ (built /\ ~peft_available =>
            \A ids \in IdLists : Apply(ids).ok <=> ids = <<>>)
    /\ (lastOp.op = "activate_raised" => active = lastOp.left)

C12_Witness ==
    /\ built
    /\ ~peft_available
    /\ loadable = Adapters
    /\ lastOp.op = "activate_raised"

(***************************************************************************)
(* Properties of the importance ranking.                                   *)
(***************************************************************************)

\* C13: the ranking is a permutation of all points of the statistics, each
\* with its importance mean as score, sorted by score descending, and two
\* points with equal score stand in ascending string order of their keys.
C13_RankingSortedDeterministic ==
    /\ Len(rankOut) = Cardinality(DOMAIN rankIn)
    /\ {rankOut[i].head : i \in 1..Len(rankOut)} = DOMAIN rankIn
    /\ \A i \in 1..Len(rankOut) : rankOut[i].score = rankIn[rankOut[i].head].mean
    /\ \A i \in 1..Len(rankOut) : \A j \in (i + 1)..Len(rankOut) :
           /\ rankOut[i].score >= rankOut[j].score
           /\ (rankOut[i].score = rankOut[j].score =>
                   StrLess(KeyChars(rankOut[i].head), KeyChars(rankOut[j].head)))

C13_Witness ==
    /\ Len(rankOut) = 4
    /\ rankOut[1].score > rankOut[2].score
    /\ rankOut[2].score = rankOut[3].score
    /\ rankOut[2].head = <<10, 0>>
    /\ rankOut[3].head = <<2, 0>>

(***************************************************************************)
(* Properties of the head-ablation result.                                 *)
(***************************************************************************)
Distinct(s) == \A i \in DOMAIN s : \A j \in DOMAIN s : i # j => s[i] # s[j]

\* C14: a head-ablation run over R >= 1 records and a grid of L distinct
\* layers by H distinct heads returns exactly L*H per-point entries, one per
\* layer/head pair, and every entry aggregates the loss deltas, accuracy
\* deltas and importances of exactly R values, one per record.
C14_GridEntriesOverAllRecords ==
    (/\ cfg.type = "head_ablation" /\ runExit = "returned" /\ cfg.records >= 1
     /\ Distinct(cfg.layers) /\ Distinct(cfg.heads)) =>
        /\ Cardinality(DOMAIN result.per_head) = Len(cfg.layers) * Len(cfg.heads)
        /\ DOMAIN result.per_head =
               {head_key(cfg.layers[i], cfg.heads[j]) :
                    i \in DOMAIN cfg.layers, j \in DOMAIN cfg.heads}
        /\ \A k \in DOMAIN result.per_head :
               LET mine == RowsOf(rows, k)
               IN /\ Len(mine) = cfg.records
                  /\ {mine[i].record_index : i \in DOMAIN mine} = 0..(cfg.records - 1)
                  /\ result.per_head[k].loss_delta =
                         aggregate_metric_values(LossDeltas(mine))
                  /\ result.per_head[k].accuracy_delta =
                         aggregate_metric_values(AccuracyDeltas(mine))
                  /\ result.per_head[k].importance =
                         aggregate_metric_values(Importances(mine))

C14_Witness ==
    /\ cfg.type = "head_ablation" /\ runExit = "returned"
    /\ cfg.records = NumRecords
    /\ cfg.layers = <<0, NumBlocks - 1>> /\ cfg.heads = <<0, 1>>
    /\ Cardinality(DOMAIN result.per_head) = 4

(***************************************************************************)
(* Properties of the direction-intervention run.                           *)
(***************************************************************************)

\* C15: a direction-intervention run over R records executes exactly two
\* forward passes per record, first the baseline pass with an empty HookSpec
\* and then the pass with the intervention HookSpec, and produces exactly
\* one result row per record: 2*R passes and R rows.
C15_TwoPassesPerRecord ==
    (cfg.type = "direction_intervention" /\ runExit = "returned") =>
        /\ Len(passLog) = 2 * cfg.records
        /\ Len(rows) = cfg.records
        /\ \A r \in 1..cfg.records :
              /\ passLog[2 * r - 1].kind = "baseline"
              /\ passLog[2 * r - 1].rec = r
              /\ passLog[2 * r - 1].spec = EmptySpec
              /\ passLog[2 * r].kind = "intervention"
              /\ passLog[2 * r].rec = r
              /\ passLog[2 * r].spec = intervention_spec
              /\ intervention_spec # EmptySpec
              /\ rows[r].record_index = r - 1
              /\ rows[r].baseline_loss = passLog[2 * r - 1].out.loss
              /\ rows[r].perturbed_loss = passLog[2 * r].out.loss

C15_Witness ==
    /\ cfg.type = "direction_intervention" /\ runExit = "returned"
    /\ cfg.records = NumRecords
    /\ Len(rows) = NumRecords
    /\ rows[1].perturbed_loss # rows[1].baseline_loss

(***************************************************************************)
(* Properties of the probe split.                                          *)
(***************************************************************************)

\* C16: for N >= 2 samples trainEnd = min(max(1, floor(0.8*N)), N-1) and
\* testStart = trainEnd, so 1 <= trainEnd <= N-1 and the train and held-out
\* sets are both non-empty and disjoint; for N = 1, trainEnd = testStart = 1
\* and the train set is not empty.
C16_ProbeSplit ==
    LET floor08 == (4 * splitN) \div 5
        atLeast1 == IF floor08 < 1 THEN 1 ELSE floor08
        clipped == IF atLeast1 > splitN - 1 THEN splitN - 1 ELSE atLeast1
    IN /\ splitN >= 2 =>
            /\ train_end = clipped
            /\ test_start = train_end
            /\ 1 <= train_end /\ train_end <= splitN - 1
            /\ trainIdx # {} /\ testIdx # {}
            /\ trainIdx \cap testIdx = {}
            /\ trainIdx \cup testIdx = 0..(splitN - 1)
       /\ splitN = 1 =>
            /\ train_end = 1 /\ test_start = 1
            /\ trainIdx = {0}

C16_Witness ==
    /\ splitN = 2
    /\ train_end = 1
    /\ trainIdx = {0}
    /\ testIdx = {1}

(***************************************************************************)
(* Properties of compute_pca.                                              *)
(***************************************************************************)
RECURSIVE SortedSeq(_)
SortedSeq(S) ==
    IF S = {} THEN <<>>
    ELSE LET least == CHOOSE x \in S : \A y \in S : x <= y
         IN <<least>> \o SortedSeq(S \ {least})

RECURSIVE Det(_, _, _)
\* determinant of the square submatrix on the given rws and columns
Det(matrix, rws, cls) ==
    IF rws = <<>> THEN 1
    ELSE LET Term(j) ==
                 (IF j % 2 = 1 THEN 1 ELSE 0 - 1) * matrix[rws[1]][cls[j]]
                 * Det(matrix, Tail(rws),
                       [i \in 1..(Len(cls) - 1) |-> IF i < j THEN cls[i] ELSE cls[i + 1]])
             RECURSIVE Sum(_)
             Sum(j) == IF j = 0 THEN 0 ELSE Term(j) + Sum(j - 1)
         IN Sum(Len(cls))

\* rank: the size of the largest square submatrix with nonzero determinant
MatrixRank(matrix) ==
    LET n == Len(matrix)
        m == Len(matrix[1])
        HasMinor(k) ==
            \E R \in SUBSET (1..n) : \E C \in SUBSET (1..m) :
                /\ Cardinality(R) = k /\ Cardinality(C) = k
                /\ Det(matrix, SortedSeq(R), SortedSeq(C)) # 0
    IN CHOOSE k \in 0..n : HasMinor(k) /\ \A j \in (k + 1)..n : ~HasMinor(j)

\* C17: for every input matrix with at least two samples, compute_pca
\* returns exactly min(requestedComponents, rank(inputMatrix)) components.
C17_PcaComponentCount ==
    (pcaStatus # "none" /\ Len(pcaMatrix) >= 2) =>
        /\ pcaStatus = "ok"
        /\ pcaCount = IF pcaRequested < MatrixRank(pcaMatrix)
                      THEN pcaRequested ELSE MatrixRank(pcaMatrix)

(***************************************************************************)
(* Properties of residual-mode metadata.                                   *)
(***************************************************************************)

\* C18: every list of residual modes produced for a layer has pairwise
\* distinct mode_index values, and each mode's 2D projection coordinate
\* list has length 0 or exactly the residual sample count recorded for the
\* layer.
C18_ResidualMetadataConsistent ==
    resStatus = "ok" =>
        /\ \A i \in DOMAIN resModes : \A j \in DOMAIN resModes :
               i # j => resModes[i].mode_index # resModes[j].mode_index
        /\ \A i \in DOMAIN resModes :
               resModes[i].projection_coords \in {0, resSampleCount}

C18_Witness ==
    /\ resStatus = "ok"
    /\ resIn.producer = "sample"
    /\ Len(resModes) = 3
    /\ resSampleCount = MaxResSamples
    /\ resModes[3].projection_coords = MaxResSamples

(***************************************************************************)
(* Properties of task progress.                                            *)
(***************************************************************************)

\* C19: after any sequence of update_task_progress calls on a task,
\* runs_completed is its initial value plus the number of calls made with
\* is_valid=True; after a valid call the status is "completed" if
\* runs_completed >= runs_needed and "open" otherwise; a call with
\* is_valid=False changes neither runs_completed nor status.
C19_TaskProgress ==
    task # NoTask =>
        /\ task.runs_completed = taskInitial + taskValidCalls
        /\ taskLast.call = "valid" =>
               task.status = IF task.runs_completed >= task.runs_needed
                             THEN "completed" ELSE "open"
        /\ taskLast.call = "invalid" =>
               /\ task.runs_completed = taskLast.before.runs_completed
               /\ task.status = taskLast.before.status

C19_Witness ==
    /\ taskLast.call = "invalid"
    /\ taskLast.before.status = "paused"
    /\ taskValidCalls = 0
    /\ task.runs_completed >= task.runs_needed

(***************************************************************************)
(* Properties of dataset release status.                                   *)
(***************************************************************************)

\* the verifications of the dataset made by verifiers who are not banned,
\* have completed the required runs and hold an old enough account
EligibleVerifications ==
    {v \in dsVerifications :
        /\ ~v.verifier.banned
        /\ v.verifier.runs_completed >= 5
        /\ v.verifier.age_days >= 7}

PairwiseSpaced(verifications) ==
    \A v \in verifications : \A w \in verifications :
        v # w => \/ v.created_at - w.created_at >= 24
                 \/ w.created_at - v.created_at >= 24

\* the size of the largest pairwise spaced set among the verifications
\* created at or after `from`, taking the earliest one each time
RECURSIVE MostSpaced(_, _)
MostSpaced(verifications, from) ==
    LET later == {v \in verifications : v.created_at >= from}
    IN IF later = {} THEN 0
       ELSE LET first == CHOOSE v \in later : \A w \in later : v.created_at <= w.created_at
            IN 1 + MostSpaced(later, first.created_at + 24)

\* a draft dataset with no banned verifier and no eligible flag was evaluated
CleanDraftEvaluated ==
    /\ dsStatus # "none"
    /\ dsBefore = "draft"
    /\ dsFlags = 0
    /\ \A v \in dsVerifications : ~v.verifier.banned

C21_DeprecatedOnFlagsOrBan ==
    (/\ dsStatus # "none"
     /\ \/ dsFlags >= 10
        \/ \E v \in dsVerifications : v.verifier.banned)
        => dsStatus = "deprecated"

C21_Witness ==
    /\ dsBefore = "official"
    /\ dsFlags = 0
    /\ \E v \in dsVerifications : v.verifier.banned
    /\ Cardinality(EligibleVerifications) = 7
    /\ PairwiseSpaced(EligibleVerifications)
    /\ dsStatus = "deprecated"

\* C28: the status "deprecated" is absorbing under evaluate_dataset_status:
\* once a dataset is deprecated, no later evaluation, after any change to
\* its flags, verifications or contributors' ban state, moves it to another
\* status.
C28_DeprecatedAbsorbing ==
    [][dsStatus = "deprecated" => dsStatus' = "deprecated"]_vars

C28_Witness ==
    /\ dsBefore = "deprecated"
    /\ dsStatus = "deprecated"
    /\ dsFlags = 0
    /\ \A v \in dsVerifications : ~v.verifier.banned
    /\ Cardinality(EligibleVerifications) = 7
    /\ PairwiseSpaced(EligibleVerifications)

(***************************************************************************)
(* Properties of aggregated findings.                                      *)
(***************************************************************************)

\* the valid results of the task that report the finding
Reporting(finding) ==
    {i \in DOMAIN aggResults :
        /\ aggResults[i].is_valid
        /\ finding \in Range(aggResults[i].findings)}

ValidResults == {i \in DOMAIN aggResults : aggResults[i].is_valid}

\* C22: after aggregate_findings(task) there is exactly one Finding row per
\* distinct (finding_type, description) reported by the task's valid
\* results; its supporting_runs is the number of valid results of the task
\* that report the finding and its confidence is supporting_runs divided by
\* the number of valid results, so confidence never exceeds 1.
C22_OneFindingPerReport ==
    ValidResults # {} =>
        /\ \A finding \in Reported :
               Reporting(finding) # {} =>
                   \E row \in findingRows :
                       /\ row.finding_type = finding.finding_type
                       /\ row.description = finding.description
                       /\ row.supporting_runs = Cardinality(Reporting(finding))
                       /\ row.total = Cardinality(ValidResults)
        /\ \A row \in findingRows :
               /\ Reporting([finding_type |-> row.finding_type,
                             description |-> row.description]) # {}
               /\ row.supporting_runs <= row.total
        /\ \A row \in findingRows : \A other \in findingRows :
               (row.finding_type = other.finding_type
                   /\ row.description = other.description) => row = other

(***************************************************************************)
(* Properties of the layer limit.                                          *)
(***************************************************************************)

\* C23: load_and_run with layer_limit = N, for every N >= 0, restricts the
\* sweep to the first N layers listed in the spec, so at most N layers are
\* visited.
C23_LayerLimitTakesFirstN ==
    (limitIn # <<>> /\ limitIn[2] # <<>> /\ limitIn[2][1] >= 0) =>
        /\ Len(limitLayers) <= limitIn[2][1]
        /\ Len(limitLayers) <= Len(limitIn[1])
        /\ \A i \in DOMAIN limitLayers : limitLayers[i] = limitIn[1][i]
        /\ Len(limitIn[1]) >= limitIn[2][1] => Len(limitLayers) = limitIn[2][1]

(***************************************************************************)
(* Properties of geometry telemetry.                                       *)
(***************************************************************************)

\* C24: log_layer_snapshot and end_run raise RuntimeError if begin_run has
\* not been called; begin_run raises RuntimeError if a run has already been
\* started on the recorder, in progress, finalized or saved; a rejected call
\* leaves the recorder's accumulated state unchanged.
C24_RecorderLifecycle ==
    /\ (recCall.op \in {"log_layer_snapshot", "end_run"} /\ recCall.before.run_id = None)
           => recCall.raised = "RuntimeError"
    /\ (recCall.op = "begin_run" /\ recCall.before.run_id # None)
           => recCall.raised = "RuntimeError"
    /\ recCall.raised = "RuntimeError" => recorder = recCall.before

C24_Witness ==
    /\ recCall.op = "begin_run"
    /\ recCall.raised = "RuntimeError"
    /\ recCall.before.summary # <<>>
    /\ recSaved = recCall.before.summary
    /\ recDirectUse

\* C30: ExperimentRunner.run can be called repeatedly on one runner
\* configured with a GeometryRecorder: every call begins a telemetry run
\* before the experiment and finalizes it before run returns or raises, and
\* an earlier run, completed or failed, does not prevent the next call from
\* starting its telemetry run.  (Stated for a recorder only the runner uses.)
C30_RepeatedRunsRecordTelemetry ==
    (geoRuns >= 1 /\ ~recDirectUse) =>
        /\ geoLastRun.began
        /\ geoLastRun.finalized
        /\ geoLastRun.outcome \in {"returned", "raised"}

(***************************************************************************)
(* Failed entry into an activation scope.                                  *)
(***************************************************************************)

\* C25: if entering activation_scope fails after the lock has been acquired
\* (an adapter fails to load or to be set active before the body runs), the
\* exception propagates with the lock released and the active adapter list
\* unchanged, so a later activate or activation_scope call from another
\* thread is not blocked forever.  A thread whose entry failed and that has
\* no scope open does not hold the lock.
C25_FailedEntryReleasesLock ==
    \A t \in Threads :
        (entryFailed[t] /\ frames[t] = <<>>) => (lockOwner # t /\ lockCount = 0)

(***************************************************************************)
(* Properties of concurrent agents.                                        *)
(***************************************************************************)

\* C26: in run_async, where the selected agents run concurrently in worker
\* threads, every model generation executes under the adapter set of the
\* agent that issued it: an agent with default lenses generates with exactly
\* those lenses active, and an agent without default lenses never generates
\* while another agent's scoped lenses are active on the shared model.
C26_GenerationUnderOwnLenses ==
    generation.agent # NoThread =>
        IF default_lenses(generation.agent) # <<>>
        THEN generation.active = default_lenses(generation.agent)
        ELSE generation.scoped_by \subseteq {generation.agent}

(***************************************************************************)
(* Properties of rate limiting.                                            *)
(***************************************************************************)

\* C27: enforce_rate_limit rejects a request with HTTP 429 whenever the
\* number of requests from the same (client IP, path) in the current window
\* exceeds the configured limit, whether the counter is kept in Redis or in
\* process memory; a request within the limit is never rejected.
C27_RejectsExactlyOverLimit ==
    rlLast.key # "none" => (rlLast.rejected <=> rlLast.count > RateLimit)

(***************************************************************************)
(* Properties of task distribution.                                        *)
(***************************************************************************)

\* C29: for any sequence of next-task requests and result submissions, a
\* contributor contributes at most one counted run to a given task:
\* next_task_for_contributor never returns a task for which the contributor
\* already has a result, and a further submission by the same contributor
\* for the same task does not increase the task's runs_completed.
C29_OneCountedRunPerContributor ==
    /\ qLast.task # NoTaskId => qLast.had_results = 0
    /\ \A c \in Contributors : \A t \in TaskIds : qCounted[c][t] <= 1
====
